---------------------------- MODULE Spec2Model ----------------------------
(***************************************************************************)
(* A model of Tulsi's Mach-O post_processor: the driver (main.cc), the     *)
(* Mach-O container and slice with deferred section writes, the DWARF      *)
(* string patcher and the LLVM coverage-map patcher.                       *)
(*                                                                         *)
(* Bytes are naturals 0..255, buffers are sequences of bytes and a buffer  *)
(* offset o (0-based in the source) is index o + 1 here.  A C++ string is  *)
(* the sequence of its bytes without the terminating NUL.                  *)
(***************************************************************************)
EXTENDS Integers, Sequences, FiniteSets, TLC

(***************************************************************************)
(* Bounds of the model.                                                    *)
(***************************************************************************)
\* Longest path prefix (old or new) that is tried.
MaxPrefixLen == 2
\* Longest string of a __debug_str table, directory table or filename list.
MaxStrLen == 2
\* Most strings in one generated __debug_str table.
MaxStrings == 2

(***************************************************************************)
(* Return codes (return_code.h).                                           *)
(***************************************************************************)
ERR_OK == 0
ERR_OPEN_FAILED == 10
ERR_READ_FAILED == 11
ERR_INVALID_FILE == 12
ERR_OUT_OF_MEMORY == 13
ERR_NOT_IMPLEMENTED == 14
ERR_WRITE_FAILED == 20
ERR_WRITE_DEFERRED == 21

(***************************************************************************)
(* Generic sequence helpers.                                               *)
(***************************************************************************)
Min(a, b) == IF a < b THEN a ELSE b

Max(a, b) == IF a > b THEN a ELSE b

\* n copies of the byte b.
Fill(n, b) == [i \in 1..n |-> b]

\* The bytes of buf at offsets [off, off + n) (0-based offset).
Bytes(buf, off, n) == SubSeq(buf, off + 1, off + n)

\* buf with the bytes at offsets [off, off + Len(src)) replaced by src (memcpy).
Overwrite(buf, off, src) ==
  [i \in 1..Len(buf) |->
     IF i > off /\ i <= off + Len(src) THEN src[i - off] ELSE buf[i]]

RECURSIVE Concat(_)
\* The concatenation of a sequence of sequences.
Concat(ss) ==
  IF Len(ss) = 0 THEN <<>>
  ELSE IF Len(ss) = 1 THEN ss[1]
  ELSE Concat(SubSeq(ss, 1, Len(ss) \div 2))
       \o Concat(SubSeq(ss, (Len(ss) \div 2) + 1, Len(ss)))

RECURSIVE SumSeq(_)
SumSeq(s) ==
  IF Len(s) = 0 THEN 0
  ELSE IF Len(s) = 1 THEN s[1]
  ELSE SumSeq(SubSeq(s, 1, Len(s) \div 2))
       + SumSeq(SubSeq(s, (Len(s) \div 2) + 1, Len(s)))

\* All sequences over S of length lo..hi.
SeqsOf(S, lo, hi) == UNION {[1..n -> S] : n \in lo..hi}

\* s begins with p (std::equal over the prefix, after the length check).
StartsWith(s, p) == Len(s) >= Len(p) /\ SubSeq(s, 1, Len(p)) = p

(***************************************************************************)
(* Characters used by the generated inputs.                                *)
(***************************************************************************)
\* 'a' and 'b'.
Alphabet == {97, 98}

\* Values an uninitialized heap byte (new uint8_t[n]) may hold: NUL or 'a'.
Indeterminate == {0, 97}

Prefixes == SeqsOf(Alphabet, 1, MaxPrefixLen)

Strings == SeqsOf(Alphabet, 1, MaxStrLen)

(***************************************************************************)
(* PatchString: the textual prefix replacement shared by the patchers.     *)
(***************************************************************************)
\* A PatchString whose replace() takes the new prefix's length for the
\* length of the prefix it replaces.
PatchStringNewLength(value, old_prefix, new_prefix) ==
  IF Len(value) < Len(old_prefix) \/ ~StartsWith(value, old_prefix)
  THEN [patched |-> FALSE, value |-> value]
  ELSE [patched |-> TRUE,
        value |-> new_prefix \o SubSeq(value, Len(new_prefix) + 1, Len(value))]

PatchString(value, old_prefix, new_prefix) ==
  IF Len(value) < Len(old_prefix) \/ ~StartsWith(value, old_prefix)
  THEN [patched |-> FALSE, value |-> value]
  ELSE [patched |-> TRUE,
        value |-> new_prefix \o SubSeq(value, Len(old_prefix) + 1, Len(value))]

\* The replacement the specification calls replace(s).
Replace(s, old_prefix, new_prefix) == PatchString(s, old_prefix, new_prefix).value

(***************************************************************************)
(* The prefix map of the multi-prefix mode (covmap_section.h,              *)
(* covmap_patcher.h, dwarf_string_patcher.h): a sequence of <<old, new>>   *)
(* pairs with distinct old prefixes, in the order the map iterates.        *)
(***************************************************************************)
\* An entry selection that takes the first entry, in iteration order, whose
\* key is a prefix of value.
ApplicableEntryFirst(prefix_map, value, i, best) ==
  LET matching == {j \in i..Len(prefix_map) : StartsWith(value, prefix_map[j][1])}
  IN IF best # 0 THEN best
     ELSE IF matching = {} THEN 0
     ELSE CHOOSE j \in matching : \A k \in matching : j <= k

\* The entry applied to value: the one with the longest key among those
\* whose key is a prefix of value, 0 when there is none.  i is the entry
\* the iteration is at, best the entry chosen so far.
RECURSIVE ApplicableEntry(_, _, _, _)
ApplicableEntry(prefix_map, value, i, best) ==
  IF i > Len(prefix_map) THEN best
  ELSE IF StartsWith(value, prefix_map[i][1])
          /\ (best = 0 \/ Len(prefix_map[i][1]) > Len(prefix_map[best][1]))
  THEN ApplicableEntry(prefix_map, value, i + 1, i)
  ELSE ApplicableEntry(prefix_map, value, i + 1, best)

\* The replacement of value under the map: PatchString with the one
\* applicable entry.
PatchStringWithMap(value, prefix_map) ==
  LET apply(e) ==
        IF e = 0 THEN [patched |-> FALSE, value |-> value]
        ELSE PatchString(value, prefix_map[e][1], prefix_map[e][2])
  IN apply(ApplicableEntry(prefix_map, value, 1, 0))

(***************************************************************************)
(* C string primitives over a buffer.                                      *)
(***************************************************************************)
RECURSIVE strlen(_, _)
\* Number of bytes from offset off up to the first NUL (the buffer's end
\* stops the scan in the model: the callers guarantee a trailing NUL).
strlen(buf, off) ==
  IF off >= Len(buf) \/ buf[off + 1] = 0 THEN 0 ELSE 1 + strlen(buf, off + 1)

\* The NUL-terminated string at offset off.
CStringAt(buf, off) == Bytes(buf, off, strlen(buf, off))

(***************************************************************************)
(* DWARFStringPatcher: the __debug_str section.                            *)
(***************************************************************************)
RECURSIVE InPlaceLoopNoTerminator(_, _, _, _, _, _)
\* A loop that copies the new prefix and moves the suffix, but does not
\* store the NUL behind the shortened entry.
InPlaceLoopNoTerminator(data, data_length, start, old_prefix, new_prefix, modified) ==
  IF start >= data_length
  THEN [data |-> data, data_was_modified |-> modified]
  ELSE LET entry_length == strlen(data, start)
           entry == Bytes(data, start, entry_length)
       IN IF entry_length >= Len(old_prefix) /\ StartsWith(entry, old_prefix)
          THEN InPlaceLoopNoTerminator(
                 Overwrite(data, start,
                           new_prefix
                           \o SubSeq(entry, Len(old_prefix) + 1, entry_length)),
                 data_length, start + entry_length + 1,
                 old_prefix, new_prefix, TRUE)
          ELSE InPlaceLoopNoTerminator(data, data_length,
                                       start + entry_length + 1,
                                       old_prefix, new_prefix, modified)

RECURSIVE InPlaceLoop(_, _, _, _, _, _)
\* The while loop of UpdateStringSectionInPlace from offset start on.
InPlaceLoop(data, data_length, start, old_prefix, new_prefix, modified) ==
  IF start >= data_length
  THEN [data |-> data, data_was_modified |-> modified]
  ELSE LET entry_length == strlen(data, start)
           entry == Bytes(data, start, entry_length)
       IN IF entry_length >= Len(old_prefix) /\ StartsWith(entry, old_prefix)
          THEN LET suffix_length == entry_length - Len(old_prefix)
                   \* memcpy of the new prefix, memmove of the suffix, then
                   \* the forced NUL; the bytes behind it are left as found.
                   patched == new_prefix
                              \o SubSeq(entry, Len(old_prefix) + 1, entry_length)
                              \o <<0>>
               IN InPlaceLoop(Overwrite(data, start, patched), data_length,
                              start + entry_length + 1,
                              old_prefix, new_prefix, TRUE)
          ELSE InPlaceLoop(data, data_length, start + entry_length + 1,
                           old_prefix, new_prefix, modified)

\* data holds data_length bytes, the last one the NUL ReadSectionData added.
UpdateStringSectionInPlace(data, data_length, old_prefix, new_prefix) ==
  InPlaceLoop(data, data_length, 0, old_prefix, new_prefix, FALSE)

RECURSIVE RewriteLoop(_, _, _, _, _, _, _)
\* The while loop of RewriteStringSection: the list of (possibly patched)
\* entries with, for each, its original and its new offset.
RewriteLoop(data, data_length, start, new_offset, old_prefix, new_prefix, acc) ==
  IF start >= data_length
  THEN acc
  ELSE LET len == strlen(data, start)
           p == PatchString(Bytes(data, start, len), old_prefix, new_prefix)
       IN RewriteLoop(data, data_length, start + len + 1,
                      new_offset + Len(p.value) + 1, old_prefix, new_prefix,
                      Append(acc, [entry |-> p.value, patched |-> p.patched,
                                   original_offset |-> start,
                                   new_offset |-> new_offset,
                                   len_plus_one |-> len + 1]))

\* junk: the value the bytes of the new buffer that are never written hold
\* (new uint8_t[n] is not zeroed and memcpy copies str_length bytes only).
RewriteStringSection(data, data_length, old_prefix, new_prefix, junk) ==
  LET entries == RewriteLoop(data, data_length, 0, 0, old_prefix, new_prefix, <<>>)
      delta_length == Len(new_prefix) - Len(old_prefix)
      idx == 1..Len(entries)
  IN [new_data |-> Concat([i \in idx |-> entries[i].entry \o <<junk>>]),
      relocation_table |->
        [o \in {entries[i].original_offset : i \in idx} |->
           LET i == CHOOSE j \in idx : entries[j].original_offset = o
           IN entries[i].new_offset],
      new_data_length |->
        SumSeq([i \in idx |-> entries[i].len_plus_one
                              + (IF entries[i].patched THEN delta_length ELSE 0)]),
      data_was_modified |-> \E i \in idx : entries[i].patched]

(***************************************************************************)
(* DWARFBufferReader: a cursor over a buffer of buffer_length bytes.  The  *)
(* reads return [ok, value, pos]: pos is read_position() afterwards.       *)
(***************************************************************************)
bytes_remaining(buf, pos) == IF pos >= Len(buf) THEN 0 ELSE Len(buf) - pos

\* Unsigned values of up to 64 bits are kept by their representative in the
\* checker's integers, -2^31 .. 2^31 - 1: v and v - 2^64 are the same 64-bit
\* value, their sums and differences are those of uint64_t, and the checker
\* stops on a value that has no representative.
RECURSIVE Horner(_)
\* The number whose base-256 digits are bytes, lowest digit first.
Horner(bytes) ==
  IF bytes = <<>> THEN 0 ELSE Head(bytes) + 256 * Horner(Tail(bytes))

\* The value of n bytes at offset pos as the host (little-endian) reads them.
LittleEndian(buf, pos, n) ==
  IF n = 8 /\ buf[pos + 8] >= 128
  THEN -1 - Horner([i \in 1..8 |-> 255 - buf[pos + i]])
  ELSE Horner(Bytes(buf, pos, n))

\* Byte i of a non-negative value.
Digit(value, i) == IF i > 4 THEN 0 ELSE (value \div (256 ^ (i - 1))) % 256

\* The n bytes that store value on the host (static_cast<T> keeps the low
\* n bytes).
ToLittleEndian(value, n) ==
  [i \in 1..n |-> IF value >= 0 THEN Digit(value, i)
                  ELSE 255 - Digit(-1 - value, i)]

\* A uint64_t as its eight bytes on the host, for the sums that have no
\* representative.
Zero64 == [i \in 1..8 |-> 0]

RECURSIVE AddBytes(_, _, _)
\* The bytes of a + b + carry, lowest first; the carry out of the last
\* byte is dropped.
AddBytes(a, b, carry) ==
  IF a = <<>> THEN <<>>
  ELSE <<(Head(a) + Head(b) + carry) % 256>>
         \o AddBytes(Tail(a), Tail(b), (Head(a) + Head(b) + carry) \div 256)

\* a + b of two uint64_t.
Add64(a, b) == AddBytes(a, b, 0)

\* The outcomes of a 32-bit shift by 32 or more, which is undefined: the
\* count is taken modulo 32, as the shift instructions of x86-64 and arm64
\* do, or every bit is shifted out.
Overshift == {"wrap", "zero"}

\* ((uint)(b & 0x7F)) << shift, a 32-bit value, widened to uint64_t.
ShiftedGroup(b, shift, overshift) ==
  LET count == shift % 32
      low == (b % 128) * (2 ^ (count % 8))
      at == count \div 8
  IN IF shift >= 32 /\ overshift = "zero"
     THEN Zero64
     ELSE [i \in 1..8 |-> IF i > 4 THEN 0
                          ELSE IF i = at + 1 THEN low % 256
                          ELSE IF i = at + 2 THEN low \div 256
                          ELSE 0]

ReadByte(buf, pos) ==
  IF bytes_remaining(buf, pos) < 1
  THEN [ok |-> FALSE, value |-> 0, pos |-> pos]
  ELSE [ok |-> TRUE, value |-> buf[pos + 1], pos |-> pos + 1]

\* ReadWORD, ReadDWORD and ReadQWORD with n = 2, 4, 8.  The value returned
\* by OSSwapInt16/32/64(*out) is dropped by the source, so *out keeps the
\* host-order value whatever swap_byte_ordering_ is.
ReadFixed(buf, pos, n) ==
  IF bytes_remaining(buf, pos) < n
  THEN [ok |-> FALSE, value |-> 0, pos |-> pos]
  ELSE [ok |-> TRUE, value |-> LittleEndian(buf, pos, n), pos |-> pos + n]

ReadWORD(buf, pos) == ReadFixed(buf, pos, 2)

ReadDWORD(buf, pos) == ReadFixed(buf, pos, 4)

ReadQWORD(buf, pos) == ReadFixed(buf, pos, 8)

RECURSIVE ReadULEB128Loop(_, _, _, _, _)
\* The do-while loop of ReadULEB128 with *out and shift as they stand; the
\* value is the uint64_t's eight bytes.
ReadULEB128Loop(buf, pos, out, shift, overshift) ==
  LET r == ReadByte(buf, pos)
  IN IF ~r.ok
     THEN [ok |-> FALSE, value |-> out, pos |-> pos]
     ELSE LET acc == Add64(out, ShiftedGroup(r.value, shift, overshift))
          IN IF r.value >= 128
             THEN ReadULEB128Loop(buf, r.pos, acc, shift + 7, overshift)
             ELSE [ok |-> TRUE, value |-> acc, pos |-> r.pos]

\* ReadULEB128 as the patchers use it: the value in the checker's integers.
\* The checker stops on an encoding of more than five bytes, where the
\* undefined shift decides the value.
ReadULEB128(buf, pos) ==
  LET r == CHOOSE x \in {ReadULEB128Loop(buf, pos, Zero64, 0, "wrap")} :
             x.pos - pos <= 5
  IN [ok |-> r.ok, value |-> LittleEndian(r.value, 0, 8), pos |-> r.pos]

ReadCharacters(buf, pos, length) ==
  IF length > bytes_remaining(buf, pos)
  THEN [ok |-> FALSE, value |-> <<>>, pos |-> pos]
  ELSE [ok |-> TRUE, value |-> Bytes(buf, pos, length), pos |-> pos + length]

\* Reads a NUL-terminated string and steps over its NUL; fails when the
\* buffer ends before a NUL.
ReadASCIIZ(buf, pos) ==
  LET n == strlen(buf, pos)
  IN IF pos + n >= Len(buf)
     THEN [ok |-> FALSE, value |-> <<>>, pos |-> pos]
     ELSE [ok |-> TRUE, value |-> Bytes(buf, pos, n), pos |-> pos + n + 1]

\* SeekToOffset and SkipForward validate nothing.
SeekToOffset(offset) == offset

SkipForward(pos, bytes) == pos + bytes

(***************************************************************************)
(* DWARFStringPatcher: the __debug_line section.                           *)
(***************************************************************************)
RECURSIVE ReadDirectoryTable(_, _, _, _, _)
\* The while (1) loop over the directory table: the patched entries, whether
\* one was patched, and the reader's position behind the terminating NUL.
ReadDirectoryTable(buf, pos, old_prefix, new_prefix, acc) ==
  LET r == ReadASCIIZ(buf, pos)
  IN IF ~r.ok
     THEN [ok |-> FALSE, pos |-> pos, table |-> acc.table, modified |-> acc.modified]
     ELSE IF r.value = <<>>
          THEN [ok |-> TRUE, pos |-> r.pos, table |-> acc.table,
                modified |-> acc.modified]
          ELSE LET p == PatchString(r.value, old_prefix, new_prefix)
               IN ReadDirectoryTable(buf, r.pos, old_prefix, new_prefix,
                                     [table |-> Append(acc.table, p.value),
                                      modified |-> acc.modified \/ p.patched])

\* A directory table that is padded to its old length even when it is one
\* byte short of it.
PaddedDirectoryTableAlwaysPadded(patched_string_table, string_table_length) ==
  LET natural == 1 + SumSeq([i \in 1..Len(patched_string_table) |->
                               Len(patched_string_table[i]) + 1])
      table == IF natural < string_table_length
               THEN Append(patched_string_table,
                           Fill(string_table_length - natural - 1, 33))
               ELSE patched_string_table
      new_string_table_length == Max(natural, string_table_length)
  IN [entries |-> table,
      new_string_table_length |-> new_string_table_length,
      new_string_table |->
        Concat([i \in 1..Len(table) |-> table[i] \o <<0>>]) \o <<0>>]

\* The directory table as the source sizes and serializes it: the padding
\* entry it appends, the new length, and the bytes (each entry and its NUL,
\* then the table's terminating NUL).
PaddedDirectoryTable(patched_string_table, string_table_length) ==
  LET natural == 1 + SumSeq([i \in 1..Len(patched_string_table) |->
                               Len(patched_string_table[i]) + 1])
      table == IF natural = string_table_length - 1
               THEN Append(patched_string_table, <<33>>)
               ELSE IF natural < string_table_length
                    THEN Append(patched_string_table,
                                Fill(string_table_length - natural - 1, 33))
                    ELSE patched_string_table
      new_string_table_length ==
               IF natural = string_table_length - 1
               THEN natural + 2
               ELSE IF natural < string_table_length
                    THEN string_table_length
                    ELSE natural
  IN [entries |-> table,
      new_string_table_length |-> new_string_table_length,
      new_string_table |->
        Concat([i \in 1..Len(table) |-> table[i] \o <<0>>]) \o <<0>>]

\* One pass of the per-unit loop of ProcessLineInfoData with the reader at
\* pos: whether the unit's header and directory table were read, whether
\* the table was modified, the LineInfoPatch of the unit, and end_offset.
ProcessLineInfoUnit(data, pos, old_prefix, new_prefix) ==
  LET compilation_unit_length_offset == pos
      is64 == /\ bytes_remaining(data, pos) >= 4
              /\ Bytes(data, pos, 4) = <<255, 255, 255, 255>>
      length == IF is64 THEN ReadQWORD(data, pos + 4) ELSE ReadDWORD(data, pos)
      compilation_unit_length == length.value
      end_offset == length.pos + compilation_unit_length
      version == ReadWORD(data, length.pos)
      header_length_offset == version.pos
      header_length == IF is64 THEN ReadQWORD(data, version.pos)
                               ELSE ReadDWORD(data, version.pos)
      bytes_to_skip == 1 + (IF version.value = 4 THEN 1 ELSE 0) + 3
      opcode_base == ReadByte(data, SkipForward(header_length.pos, bytes_to_skip))
      string_table_start_offset == SkipForward(opcode_base.pos, opcode_base.value - 1)
      dirs == ReadDirectoryTable(data, string_table_start_offset,
                                 old_prefix, new_prefix,
                                 [table |-> <<>>, modified |-> FALSE])
      string_table_length == dirs.pos - string_table_start_offset
      padded == PaddedDirectoryTable(dirs.table, string_table_length)
  IN IF ~length.ok \/ ~version.ok \/ ~header_length.ok \/ ~opcode_base.ok
        \/ ~dirs.ok
     THEN [ok |-> FALSE]
     ELSE [ok |-> TRUE,
           modified |-> dirs.modified,
           end_offset |-> end_offset,
           action |->
             [compilation_unit_length |-> compilation_unit_length,
              compilation_unit_length_offset |-> compilation_unit_length_offset,
              header_length |-> header_length.value,
              header_length_offset |-> header_length_offset,
              string_table_start_offset |-> string_table_start_offset,
              string_table_length |-> string_table_length,
              new_string_table |-> padded.new_string_table,
              new_string_table_length |-> padded.new_string_table_length]]

RECURSIVE ProcessLineInfoLoop(_, _, _, _, _)
\* The per-unit loop of ProcessLineInfoData with the reader at pos.
ProcessLineInfoLoop(data, pos, old_prefix, new_prefix, acc) ==
  LET next(unit) ==
        IF ~unit.ok
        THEN [retval |-> ERR_INVALID_FILE, patch_actions |-> acc.patch_actions,
              patched_section_size_increase |-> acc.increase]
        ELSE ProcessLineInfoLoop(
               data, SeekToOffset(unit.end_offset), old_prefix, new_prefix,
               IF unit.modified
               THEN [patch_actions |-> Append(acc.patch_actions, unit.action),
                     increase |-> acc.increase
                                    + unit.action.new_string_table_length
                                    - unit.action.string_table_length]
               ELSE acc)
  IN IF bytes_remaining(data, pos) = 0
     THEN [retval |-> ERR_OK, patch_actions |-> acc.patch_actions,
           patched_section_size_increase |-> acc.increase]
     ELSE next(ProcessLineInfoUnit(data, pos, old_prefix, new_prefix))

ProcessLineInfoData(data, old_prefix, new_prefix) ==
  ProcessLineInfoLoop(data, 0, old_prefix, new_prefix,
                      [patch_actions |-> <<>>, increase |-> 0])

RECURSIVE InPlaceLineInfoData(_, _)
\* The buffer ApplyLineInfoPatchesInPlace hands to WriteSectionData.
InPlaceLineInfoData(data, patch_actions) ==
  IF patch_actions = <<>>
  THEN data
  ELSE LET a == Head(patch_actions)
       IN InPlaceLineInfoData(
            Overwrite(data, a.string_table_start_offset,
                      SubSeq(a.new_string_table, 1, a.string_table_length)),
            Tail(patch_actions))

\* UpdateLineInfoSizeInfo<T> with sizeof(T) = width: both lengths are
\* stored in host order (the value of OSSwapInt32/64 is dropped).
UpdateLineInfoSizeInfo(existing_data, compilation_unit_length_offset, header_length_offset, width, new_compilation_unit_length, new_header_length) ==
  Overwrite(Overwrite(existing_data, compilation_unit_length_offset,
                      ToLittleEndian(new_compilation_unit_length, width)),
            header_length_offset, ToLittleEndian(new_header_length, width))

\* value > 0xffffffff: of the values the checker's integers represent,
\* those kept as negative numbers (2^64 - 2^31 and up).
Exceeds32Bits(value) == value < 0

RECURSIVE RewriteLineInfoLoop(_, _, _, _)
\* The loop of ApplyLineInfoPatches: [retval, new_data] with new_data the
\* bytes copied so far.
RewriteLineInfoLoop(existing_data, next_copy_start, patch_actions, new_data) ==
  IF patch_actions = <<>>
  THEN [retval |-> ERR_OK,
        new_data |-> new_data \o SubSeq(existing_data, next_copy_start + 1,
                                        Len(existing_data))]
  ELSE
    LET a == Head(patch_actions)
        string_table_delta_size == a.new_string_table_length - a.string_table_length
        new_compilation_unit_length ==
          a.compilation_unit_length + string_table_delta_size
        new_header_length == a.header_length + string_table_delta_size
        existing_data_is_64_bit == Exceeds32Bits(a.compilation_unit_length)
        new_data_is_64_bit == Exceeds32Bits(new_compilation_unit_length)
        patched == UpdateLineInfoSizeInfo(
                     existing_data, a.compilation_unit_length_offset,
                     a.header_length_offset,
                     IF existing_data_is_64_bit THEN 8 ELSE 4,
                     new_compilation_unit_length, new_header_length)
    IN IF existing_data_is_64_bit # new_data_is_64_bit
       THEN [retval |-> ERR_NOT_IMPLEMENTED, new_data |-> new_data]
       ELSE RewriteLineInfoLoop(
              patched, a.string_table_start_offset + a.string_table_length,
              Tail(patch_actions),
              new_data
                \o SubSeq(patched, next_copy_start + 1, a.string_table_start_offset)
                \o a.new_string_table)

\* The buffer ApplyLineInfoPatches hands to WriteSectionData.
RewriteLineInfoData(existing_data, patch_actions) ==
  RewriteLineInfoLoop(existing_data, 0, patch_actions, <<>>)

(***************************************************************************)
(* DWARFStringPatcher: the __debug_abbrev section.                         *)
(***************************************************************************)
DW_FORM_addr == 1
DW_FORM_block2 == 3
DW_FORM_block4 == 4
DW_FORM_data2 == 5
DW_FORM_data4 == 6
DW_FORM_data8 == 7
DW_FORM_string == 8
DW_FORM_block == 9
DW_FORM_block1 == 10
DW_FORM_data1 == 11
DW_FORM_flag == 12
DW_FORM_sdata == 13
DW_FORM_strp == 14
DW_FORM_udata == 15
DW_FORM_ref_addr == 16
DW_FORM_ref1 == 17
DW_FORM_ref2 == 18
DW_FORM_ref4 == 19
DW_FORM_ref8 == 20
DW_FORM_ref_udata == 21
DW_FORM_indirect == 22

RECURSIVE ReadAttributes(_, _, _)
\* The while (true) loop of ProcessAbbreviation: the <<name, form>> pairs up
\* to the 0, 0 pair.
ReadAttributes(buf, pos, acc) ==
  LET name == ReadULEB128(buf, pos)
      form == ReadULEB128(buf, name.pos)
  IN IF ~name.ok \/ ~form.ok
     THEN [ok |-> FALSE, pos |-> pos, attributes |-> acc]
     ELSE IF name.value = 0 /\ form.value = 0
          THEN [ok |-> TRUE, pos |-> form.pos, attributes |-> acc]
          ELSE ReadAttributes(buf, form.pos,
                              Append(acc, <<name.value, form.value>>))

NoAbbreviation ==
  [abbreviation_code |-> 0, tag |-> 0, has_children |-> FALSE,
   attributes |-> <<>>]

ProcessAbbreviation(buf, pos) ==
  LET code == ReadULEB128(buf, pos)
      tag == ReadULEB128(buf, code.pos)
      has_children == ReadByte(buf, tag.pos)
      attrs == ReadAttributes(buf, has_children.pos, <<>>)
      failed == [retval |-> ERR_INVALID_FILE, pos |-> pos,
                 end_of_table |-> FALSE, abbreviation |-> NoAbbreviation]
  IN IF ~code.ok THEN failed
     ELSE IF code.value = 0
     THEN [retval |-> ERR_OK, pos |-> code.pos, end_of_table |-> TRUE,
           abbreviation |-> NoAbbreviation]
     ELSE IF ~tag.ok \/ ~has_children.ok \/ ~attrs.ok THEN failed
     ELSE [retval |-> ERR_OK, pos |-> attrs.pos, end_of_table |-> FALSE,
           abbreviation |-> [abbreviation_code |-> code.value,
                             tag |-> tag.value,
                             has_children |-> has_children.value # 0,
                             attributes |-> attrs.attributes]]

\* table_map with abbreviation a stored under its code in the table that
\* starts at cur_table_offset.
InsertAbbreviation(table_map, cur_table_offset, a) ==
  LET table == IF cur_table_offset \in DOMAIN table_map
               THEN table_map[cur_table_offset]
               ELSE [c \in {} |-> NoAbbreviation]
      table_new == [c \in DOMAIN table \cup {a.abbreviation_code} |->
                      IF c = a.abbreviation_code THEN a ELSE table[c]]
  IN [o \in DOMAIN table_map \cup {cur_table_offset} |->
        IF o = cur_table_offset THEN table_new ELSE table_map[o]]

RECURSIVE ProcessAbbrevLoop(_, _, _, _)
\* The while (reader.bytes_remaining()) loop of ProcessAbbrevSection.
ProcessAbbrevLoop(buf, pos, cur_table_offset, table_map) ==
  LET next(a) ==
        IF a.retval # ERR_OK
        THEN [retval |-> a.retval, table_map |-> table_map]
        ELSE IF a.end_of_table
             THEN ProcessAbbrevLoop(buf, a.pos, a.pos, table_map)
             ELSE ProcessAbbrevLoop(buf, a.pos, cur_table_offset,
                    InsertAbbreviation(table_map, cur_table_offset,
                                       a.abbreviation))
  IN IF bytes_remaining(buf, pos) = 0
     THEN [retval |-> ERR_OK, table_map |-> table_map]
     ELSE next(ProcessAbbreviation(buf, pos))

NoAbbreviationTables == [o \in {} |-> [c \in {} |-> NoAbbreviation]]

\* ProcessAbbrevSection over the section's bytes, or over no section at all
\* (a warning, and ERR_OK with an empty map).
ProcessAbbrevSection(found, data) ==
  IF ~found
  THEN [retval |-> ERR_OK, table_map |-> NoAbbreviationTables]
  ELSE ProcessAbbrevLoop(data, 0, 0, NoAbbreviationTables)

(***************************************************************************)
(* DWARFStringPatcher: the __debug_info section.                           *)
(*                                                                         *)
(* width is 4 for a 32-bit DWARF unit and 8 for a 64-bit one: read_func    *)
(* reads, and write_func stores, a host-order value of that many bytes.    *)
(* The walk's state is [retval, pos, data, modified].                      *)
(***************************************************************************)
Walked(retval, pos, data, modified) ==
  [retval |-> retval, pos |-> pos, data |-> data, modified |-> modified]

RECURSIVE PatchfoAttributeValue(_, _, _, _, _, _, _, _)
PatchfoAttributeValue(data, pos, modified, string_relocation_table, form_code, address_size, dwarf_version, width) ==
  LET skip(n) == Walked(ERR_OK, SkipForward(pos, n), data, modified)
      after(r) == IF r.ok THEN Walked(ERR_OK, r.pos, data, modified)
                  ELSE Walked(ERR_INVALID_FILE, r.pos, data, modified)
      block(r) == IF r.ok
                  THEN Walked(ERR_OK, SkipForward(r.pos, r.value), data, modified)
                  ELSE Walked(ERR_INVALID_FILE, r.pos, data, modified)
  IN CASE form_code = DW_FORM_addr -> skip(address_size)
       [] form_code = DW_FORM_block2 -> block(ReadWORD(data, pos))
       [] form_code = DW_FORM_block4 -> block(ReadDWORD(data, pos))
       [] form_code \in {DW_FORM_data1, DW_FORM_ref1, DW_FORM_flag} -> skip(1)
       [] form_code \in {DW_FORM_data2, DW_FORM_ref2} -> skip(2)
       [] form_code \in {DW_FORM_data4, DW_FORM_ref4} -> skip(4)
       [] form_code \in {DW_FORM_data8, DW_FORM_ref8} -> skip(8)
       [] form_code = DW_FORM_string -> after(ReadASCIIZ(data, pos))
       [] form_code = DW_FORM_block -> block(ReadULEB128(data, pos))
       [] form_code = DW_FORM_block1 -> block(ReadByte(data, pos))
       [] form_code \in {DW_FORM_sdata, DW_FORM_udata, DW_FORM_ref_udata} ->
            after(ReadULEB128(data, pos))
       [] form_code = DW_FORM_strp ->
            LET string_offset == ReadFixed(data, pos, width)
            IN IF ~string_offset.ok
                  \/ string_offset.value \notin DOMAIN string_relocation_table
               THEN Walked(ERR_INVALID_FILE, string_offset.pos, data, modified)
               ELSE LET new_offset ==
                          string_relocation_table[string_offset.value]
                    IN IF new_offset # string_offset.value
                       THEN Walked(ERR_OK, string_offset.pos,
                                   Overwrite(data, pos,
                                             ToLittleEndian(new_offset, width)),
                                   TRUE)
                       ELSE Walked(ERR_OK, string_offset.pos, data, modified)
       [] form_code = DW_FORM_ref_addr ->
            IF dwarf_version <= 2 THEN skip(address_size)
            ELSE after(ReadFixed(data, pos, width))
       [] form_code = DW_FORM_indirect ->
            LET real_encoding == ReadULEB128(data, pos)
            IN IF ~real_encoding.ok
               THEN Walked(ERR_INVALID_FILE, real_encoding.pos, data, modified)
               ELSE PatchfoAttributeValue(data, real_encoding.pos, modified,
                      string_relocation_table, real_encoding.value,
                      address_size, dwarf_version, width)
       [] OTHER -> Walked(ERR_NOT_IMPLEMENTED, pos, data, modified)

RECURSIVE PatchAttributes(_, _, _, _, _, _, _, _, _)
\* The for loop over one abbreviation's attributes, from attribute i on.
PatchAttributes(data, pos, modified, string_relocation_table, attributes, i, address_size, dwarf_version, width) ==
  LET next(w) ==
        IF w.retval # ERR_OK
        THEN w
        ELSE PatchAttributes(w.data, w.pos, w.modified,
               string_relocation_table, attributes, i + 1, address_size,
               dwarf_version, width)
  IN IF i > Len(attributes)
     THEN Walked(ERR_OK, pos, data, modified)
     ELSE next(PatchfoAttributeValue(data, pos, modified,
                 string_relocation_table, attributes[i][2], address_size,
                 dwarf_version, width))

RECURSIVE PatchEntries(_, _, _, _, _, _, _, _, _)
\* The while (reader.read_position() < unit_end_position) loop.
PatchEntries(data, pos, modified, string_relocation_table, abbreviation_table, unit_end_position, address_size, dwarf_version, width) ==
  LET next(w) ==
        IF w.retval # ERR_OK
        THEN w
        ELSE PatchEntries(w.data, w.pos, w.modified, string_relocation_table,
               abbreviation_table, unit_end_position, address_size,
               dwarf_version, width)
      entry(abbrev_code) ==
        IF ~abbrev_code.ok
        THEN Walked(ERR_INVALID_FILE, pos, data, modified)
        ELSE IF abbrev_code.value = 0
        THEN PatchEntries(data, abbrev_code.pos, modified,
               string_relocation_table, abbreviation_table,
               unit_end_position, address_size, dwarf_version, width)
        ELSE IF abbrev_code.value \notin DOMAIN abbreviation_table
        THEN Walked(ERR_INVALID_FILE, abbrev_code.pos, data, modified)
        ELSE next(PatchAttributes(data, abbrev_code.pos, modified,
                    string_relocation_table,
                    abbreviation_table[abbrev_code.value].attributes, 1,
                    address_size, dwarf_version, width))
  IN IF pos >= unit_end_position
     THEN Walked(ERR_OK, pos, data, modified)
     ELSE entry(ReadULEB128(data, pos))

RECURSIVE PatchUnits(_, _, _, _, _)
\* The while (reader.bytes_remaining() > 0) loop over the compilation units.
\* A unit is taken for 64-bit DWARF when bit 31 of its first length is set.
PatchUnits(data, pos, modified, string_relocation_table, abbreviation_table_map) ==
  LET next(w) ==
        IF w.retval # ERR_OK
        THEN w
        ELSE PatchUnits(w.data, w.pos, w.modified, string_relocation_table,
                        abbreviation_table_map)
      unit(width, length) ==
        LET header(dwarf_version, abbrev_offset, address_size) ==
              IF ~length.ok \/ ~dwarf_version.ok \/ ~abbrev_offset.ok
                 \/ ~address_size.ok
              THEN Walked(ERR_INVALID_FILE, pos, data, modified)
              ELSE IF abbrev_offset.value \notin DOMAIN abbreviation_table_map
              THEN Walked(ERR_INVALID_FILE, address_size.pos, data, modified)
              ELSE next(PatchEntries(data, address_size.pos, modified,
                          string_relocation_table,
                          abbreviation_table_map[abbrev_offset.value],
                          length.pos + length.value, address_size.value,
                          dwarf_version.value, width))
            offset(dwarf_version, abbrev_offset) ==
              header(dwarf_version, abbrev_offset,
                     ReadByte(data, abbrev_offset.pos))
            version(dwarf_version) ==
              offset(dwarf_version, ReadFixed(data, dwarf_version.pos, width))
        IN version(ReadWORD(data, length.pos))
  IN IF bytes_remaining(data, pos) = 0
     THEN Walked(ERR_OK, pos, data, modified)
     ELSE IF bytes_remaining(data, pos) < 4
     THEN Walked(ERR_INVALID_FILE, pos, data, modified)
     ELSE IF data[pos + 4] >= 128
     THEN unit(8, ReadQWORD(data, pos + 4))
     ELSE unit(4, ReadDWORD(data, pos))

(***************************************************************************)
(* CovmapSection: the __llvm_covmap section.  A FilenameGroup is [size,    *)
(* offset, filenames]: its serialized size, its offset in the section and  *)
(* its filenames in order.                                                 *)
(***************************************************************************)
RECURSIVE EncodedLEB128Size(_)
EncodedLEB128Size(value) ==
  IF value \div 128 = 0 THEN 1 ELSE 1 + EncodedLEB128Size(value \div 128)

RECURSIVE EncodeLEB128(_)
\* The bytes EncodeLEB128 appends to the vector.
EncodeLEB128(value) ==
  IF value \div 128 = 0
  THEN <<value % 128>>
  ELSE <<(value % 128) + 128>> \o EncodeLEB128(value \div 128)

\* FilenameGroup::CalculateSize: the size it stores in the group.
CalculateSize(filenames) ==
  EncodedLEB128Size(Len(filenames))
  + SumSeq([i \in 1..Len(filenames) |->
              EncodedLEB128Size(Len(filenames[i])) + Len(filenames[i])])

RECURSIVE PaddingFilenames(_)
\* The bytes the if (padding) block of Serialize appends: filename_buffer
\* holds a length byte followed by zeros.
PaddingFilenames(padding) ==
  IF padding > 129
  THEN <<127>> \o Fill(127, 0) \o PaddingFilenames(padding - 128)
  ELSE IF padding = 129
  THEN <<126>> \o Fill(126, 0) \o PaddingFilenames(padding - 127)
  ELSE IF padding > 1
  THEN <<padding - 1>> \o Fill(padding - 1, 0)
  ELSE <<>>

\* A Serialize that gives up only when the longer filename count takes more
\* bytes than the padding.
SerializeCountMayFill(g, minimum_size) ==
  LET padding == IF g.size < minimum_size THEN minimum_size - g.size ELSE 0
      padding_strings_needed ==
        IF padding # 0 THEN (padding + 127) \div 128 ELSE 0
      real_string_count_size == EncodedLEB128Size(Len(g.filenames))
      string_count == Len(g.filenames) + padding_strings_needed
      additional_bytes_used ==
        EncodedLEB128Size(string_count) - real_string_count_size
  IN IF padding # 0 /\ additional_bytes_used > padding
     THEN [ok |-> FALSE, v |-> <<>>]
     ELSE [ok |-> TRUE,
           v |-> EncodeLEB128(string_count)
                 \o Concat([i \in 1..Len(g.filenames) |->
                              EncodeLEB128(Len(g.filenames[i]))
                              \o g.filenames[i]])
                 \o PaddingFilenames(padding)]

\* FilenameGroup::Serialize(v, minimum_size) on an empty vector: ok is the
\* value returned and v the bytes appended.
Serialize(g, minimum_size) ==
  LET padding == IF g.size < minimum_size THEN minimum_size - g.size ELSE 0
      padding_strings_needed ==
        IF padding # 0 THEN (padding + 127) \div 128 ELSE 0
      real_string_count_size == EncodedLEB128Size(Len(g.filenames))
      string_count == Len(g.filenames) + padding_strings_needed
      additional_bytes_used ==
        EncodedLEB128Size(string_count) - real_string_count_size
  IN IF padding # 0 /\ additional_bytes_used >= padding
     THEN [ok |-> FALSE, v |-> <<>>]
     ELSE [ok |-> TRUE,
           v |-> EncodeLEB128(string_count)
                 \o Concat([i \in 1..Len(g.filenames) |->
                              EncodeLEB128(Len(g.filenames[i]))
                              \o g.filenames[i]])
                 \o PaddingFilenames(padding)]

RECURSIVE ReadFilenames(_, _, _, _)
\* The for loop of ReadFilenameGroup with remaining filenames to read: one
\* round of it, or the first half of the rounds and then the others.  The
\* characters read are pushed as a C string, so a filename ends at its
\* first NUL, while the group's size counts every byte read.
ReadFilenames(buf, pos, remaining, g) ==
  LET chars(offset, c) ==
        IF ~c.ok THEN [retval |-> ERR_READ_FAILED, g |-> g, pos |-> c.pos]
        ELSE [retval |-> ERR_OK,
              g |-> [g EXCEPT !.filenames = Append(@, CStringAt(c.value \o <<0>>, 0)),
                              !.size = @ + (c.pos - offset)],
              pos |-> c.pos]
      length(offset, filename_len) ==
        IF ~filename_len.ok
        THEN [retval |-> ERR_INVALID_FILE, g |-> g, pos |-> filename_len.pos]
        ELSE chars(offset, ReadCharacters(buf, filename_len.pos,
                                          filename_len.value))
      others(first) ==
        IF first.retval # ERR_OK THEN first
        ELSE ReadFilenames(buf, first.pos, remaining - (remaining \div 2),
                           first.g)
  IN IF remaining = 0
     THEN [retval |-> ERR_OK, g |-> g, pos |-> pos]
     ELSE IF remaining = 1
     THEN length(pos, ReadULEB128(buf, pos))
     ELSE others(ReadFilenames(buf, pos, remaining \div 2, g))

ReadFilenameGroup(buf, pos) ==
  LET count(num_filenames) ==
        IF ~num_filenames.ok
        THEN [retval |-> ERR_INVALID_FILE,
              g |-> [size |-> 0, offset |-> pos, filenames |-> <<>>],
              pos |-> num_filenames.pos]
        ELSE ReadFilenames(buf, num_filenames.pos, num_filenames.value,
                           [size |-> num_filenames.pos - pos, offset |-> pos,
                            filenames |-> <<>>])
  IN count(ReadULEB128(buf, pos))

RECURSIVE ReadRecords(_, _, _, _)
\* ReadFunctionRecords (record_size 24) and ReadV2FunctionRecords (20):
\* count records are read and dropped.
ReadRecords(buf, pos, count, record_size) ==
  IF count = 0 THEN [retval |-> ERR_OK, pos |-> pos]
  ELSE IF bytes_remaining(buf, pos) < record_size
  THEN [retval |-> ERR_INVALID_FILE, pos |-> pos]
  ELSE ReadRecords(buf, pos + record_size, count - 1, record_size)

ReadFunctionRecords(buf, pos, count) == ReadRecords(buf, pos, count, 24)

ReadV2FunctionRecords(buf, pos, count) == ReadRecords(buf, pos, count, 20)

\* ReadCoverageMapping with the reader at pos: groups holds the filename
\* group it pushed onto filename_groups_.
ReadCoverageMapping(buf, pos) ==
  LET failed(retval) == [retval |-> retval, has_more |-> FALSE, pos |-> pos,
                         groups |-> <<>>]
      function_records_size == LittleEndian(buf, pos, 4)
      filenames_size == LittleEndian(buf, pos + 4, 4)
      coverage_size == LittleEndian(buf, pos + 8, 4)
      version == LittleEndian(buf, pos + 12, 4) + 1
      skip(data_start_offset, g) ==
        LET data_end_offset == data_start_offset + filenames_size + coverage_size
            misalign == data_end_offset % 8
        IN IF g.retval # ERR_OK THEN failed(g.retval)
           ELSE IF data_end_offset > Len(buf) THEN failed(ERR_READ_FAILED)
           ELSE [retval |-> ERR_OK,
                 has_more |-> data_end_offset < Len(buf),
                 pos |-> IF data_end_offset < Len(buf) /\ misalign # 0
                         THEN SkipForward(SeekToOffset(data_end_offset),
                                          8 - misalign)
                         ELSE SeekToOffset(data_end_offset),
                 groups |-> <<g.g>>]
      records(r) ==
        IF r.retval # ERR_OK THEN failed(r.retval)
        ELSE skip(r.pos, ReadFilenameGroup(buf, r.pos))
  IN IF bytes_remaining(buf, pos) < 16 THEN failed(ERR_INVALID_FILE)
     ELSE IF version = 1
     THEN records(ReadFunctionRecords(buf, pos + 16, function_records_size))
     ELSE IF version = 2
     THEN records(ReadV2FunctionRecords(buf, pos + 16, function_records_size))
     ELSE failed(ERR_INVALID_FILE)

RECURSIVE ParseLoop(_, _, _)
\* The while (has_more) loop of Parse and the check behind it.
ParseLoop(buf, pos, filename_groups) ==
  LET next(m) ==
        IF m.retval # ERR_OK
        THEN [retval |-> m.retval, filename_groups |-> filename_groups \o m.groups]
        ELSE IF m.has_more
        THEN ParseLoop(buf, m.pos, filename_groups \o m.groups)
        ELSE [retval |-> IF bytes_remaining(buf, m.pos) # 0
                         THEN ERR_INVALID_FILE ELSE ERR_OK,
              filename_groups |-> filename_groups \o m.groups]
  IN next(ReadCoverageMapping(buf, pos))

\* CovmapSection::Parse over section_data: [retval, filename_groups].
Parse(section_data) == ParseLoop(section_data, 0, <<>>)

\* The inner loop of PatchFilenamesAndInvalidate over one group's
\* filenames: the new group's filenames and needs_rewrite.
PatchFilenames(filenames, old_prefix, new_prefix) ==
  LET matches(filename) ==
        ~(Len(filename) < Len(old_prefix) \/ ~StartsWith(filename, old_prefix))
  IN [filenames |->
        [i \in 1..Len(filenames) |->
           IF matches(filenames[i])
           THEN new_prefix \o SubSeq(filenames[i], Len(old_prefix) + 1,
                                     Len(filenames[i]))
           ELSE filenames[i]],
      needs_rewrite |-> \E i \in 1..Len(filenames) : matches(filenames[i])]

\* One round of the loop over filename_groups_ for group g: whether the
\* group is rewritten, the Serialize call made for it and its result.
PatchFilenameGroup(g, old_prefix, new_prefix) ==
  LET serialized(new_group) ==
        [needs_rewrite |-> TRUE, new_group |-> new_group,
         minimum_size |-> g.size, result |-> Serialize(new_group, g.size)]
      rewrite(p) ==
        IF ~p.needs_rewrite
        THEN [needs_rewrite |-> FALSE]
        ELSE serialized([size |-> CalculateSize(p.filenames),
                         offset |-> g.offset, filenames |-> p.filenames])
  IN rewrite(PatchFilenames(g.filenames, old_prefix, new_prefix))

\* may_write_in_place once the loop has pushed replacement_groups.
MayWriteInPlace(replacement_groups) ==
  \A i \in 1..Len(replacement_groups) :
     Len(replacement_groups[i].serialized_data)
       = replacement_groups[i].original_size

RECURSIVE CopyReplacements(_, _)
\* The memcpy of every replacement over the section's data.
CopyReplacements(section_data, replacement_groups) ==
  IF replacement_groups = <<>> THEN section_data
  ELSE CopyReplacements(
         Overwrite(section_data, Head(replacement_groups).offset,
                   SubSeq(Head(replacement_groups).serialized_data, 1,
                          Head(replacement_groups).original_size)),
         Tail(replacement_groups))

\* What PatchFilenamesAndInvalidate returns behind its loop: null tells
\* that it returned nullptr.
ReplacedSection(section_data, replacement_groups, data_was_modified) ==
  IF ~data_was_modified
  THEN [null |-> FALSE, data |-> section_data]
  ELSE IF MayWriteInPlace(replacement_groups)
  THEN [null |-> FALSE, data |-> CopyReplacements(section_data, replacement_groups)]
  ELSE [null |-> TRUE, data |-> <<>>]

(***************************************************************************)
(* MachOFile: one Mach-O image (slice) of a file.                          *)
(*                                                                         *)
(* A slice is [content_offset, content_size, swap_byte_ordering, segments, *)
(* deferred_write_actions].  segments is the parsed segments_ vector, in   *)
(* load-command order, each [segname, fileoff, filesize, sections] with    *)
(* sections a sequence of [sectname, offset, size]; offsets are relative   *)
(* to the slice's start.  deferred_write_actions maps a SectionPath        *)
(* <<segment, section>> to [data, data_size, existing_data_size].          *)
(***************************************************************************)
NoSlice == [absent |-> TRUE]

NoDeferredWrites == [p \in {} |-> 0]

has_deferred_writes(slice) == DOMAIN slice.deferred_write_actions # {}

\* The sections GetSectionInfo visits, in its scan order: those of every
\* segment named segment_name.
SectionsOfSegment(slice, segment_name) ==
  Concat([i \in 1..Len(slice.segments) |->
            IF slice.segments[i].segname = segment_name
            THEN slice.segments[i].sections
            ELSE <<>>])

\* A lookup by section name alone, over the sections of every segment.
GetSectionInfoAnySegment(slice, segment_name, section_name) ==
  LET sects == Concat([i \in 1..Len(slice.segments) |->
                         slice.segments[i].sections])
      hits == {i \in 1..Len(sects) : sects[i].sectname = section_name}
  IN IF hits = {}
     THEN [found |-> FALSE, file_offset |-> 0, section_size |-> 0]
     ELSE LET i == CHOOSE j \in hits : \A k \in hits : j <= k
          IN [found |-> TRUE,
              file_offset |-> sects[i].offset + slice.content_offset,
              section_size |-> sects[i].size]

GetSectionInfo(slice, segment_name, section_name) ==
  LET sects == SectionsOfSegment(slice, segment_name)
      hits == {i \in 1..Len(sects) : sects[i].sectname = section_name}
  IN IF hits = {}
     THEN [found |-> FALSE, file_offset |-> 0, section_size |-> 0]
     ELSE LET i == CHOOSE j \in hits : \A k \in hits : j <= k
          IN [found |-> TRUE,
              file_offset |-> sects[i].offset + slice.content_offset,
              section_size |-> sects[i].size]

\* The buffer holds the section's bytes and trailing_bytes zeros; size is
\* the length of that buffer (the callers drop the trailing NUL again).
ReadSectionData(slice, bytes, segment_name, section_name, trailing_bytes) ==
  LET info == GetSectionInfo(slice, segment_name, section_name)
  IN IF ~info.found
     THEN [found |-> FALSE, data |-> <<>>, size |-> 0]
     ELSE [found |-> TRUE,
           data |-> Bytes(bytes, info.file_offset, info.section_size)
                    \o Fill(trailing_bytes, 0),
           size |-> info.section_size + trailing_bytes]

\* [retval, slice, bytes]: the slice and the file's bytes after the call.
WriteSectionData(slice, bytes, segment_name, section_name, data, data_size) ==
  LET info == GetSectionInfo(slice, segment_name, section_name)
      path == <<segment_name, section_name>>
      entry == [data |-> SubSeq(data, 1, data_size),
                data_size |-> data_size,
                existing_data_size |-> info.section_size]
  IN IF ~info.found
     THEN [retval |-> ERR_WRITE_FAILED, slice |-> slice, bytes |-> bytes]
     ELSE IF data_size = info.section_size
          THEN [retval |-> ERR_OK, slice |-> slice,
                bytes |-> Overwrite(bytes, info.file_offset,
                                    SubSeq(data, 1, data_size))]
          ELSE [retval |-> ERR_WRITE_DEFERRED,
                slice |-> [slice EXCEPT !.deferred_write_actions =
                             [q \in DOMAIN @ \cup {path} |->
                                IF q = path THEN entry ELSE @[q]]],
                bytes |-> bytes]

(***************************************************************************)
(* MachOFileImpl::SerializeWithDeferredWrites.                             *)
(*                                                                         *)
(* commands is the image's segment command table as the file holds it: a   *)
(* sequence parallel to the slice's segments, each entry [segname,         *)
(* fileoff, filesize, sections].  The serializer patches that table in the *)
(* buffer; the slice's own copy (segments) is what it reads sizes from.    *)
(***************************************************************************)
\* Appends the image's bytes to an empty buffer.
LoadBuffer(slice, bytes) == Bytes(bytes, slice.content_offset, slice.content_size)

\* memmove(buf + dst, buf + src, n).
MemMove(buf, dst, src, n) == Overwrite(buf, dst, Bytes(buf, src, n))

RECURSIVE SumAdjustments(_, _)
\* The sum of data_size - existing_data_size over the deferred writes paths.
SumAdjustments(writes, paths) ==
  IF paths = {} THEN 0
  ELSE LET p == CHOOSE q \in paths : TRUE
       IN writes[p].data_size - writes[p].existing_data_size
          + SumAdjustments(writes, paths \ {p})

\* A CalculateDeferredWriteSegmentResizes that stores a segment's
\* adjustment anew for each of its deferred writes instead of adding to it.
CalculateDeferredWriteSegmentResizesLast(slice) ==
  LET writes == slice.deferred_write_actions
      paths == DOMAIN writes
  IN IF \E p \in paths : writes[p].data_size < writes[p].existing_data_size
     THEN [retval |-> ERR_NOT_IMPLEMENTED, resizes |-> [n \in {} |-> 0],
           total_resize |-> 0]
     ELSE [retval |-> ERR_OK,
           resizes |-> [n \in {p[1] : p \in paths} |->
                          SumAdjustments(writes,
                            {CHOOSE p \in paths : p[1] = n})],
           total_resize |-> SumAdjustments(writes, paths)]

CalculateDeferredWriteSegmentResizes(slice) ==
  LET writes == slice.deferred_write_actions
      paths == DOMAIN writes
  IN IF \E p \in paths : writes[p].data_size < writes[p].existing_data_size
     THEN [retval |-> ERR_NOT_IMPLEMENTED, resizes |-> [n \in {} |-> 0],
           total_resize |-> 0]
     ELSE [retval |-> ERR_OK,
           resizes |-> [n \in {p[1] : p \in paths} |->
                          SumAdjustments(writes, {p \in paths : p[1] = n})],
           total_resize |-> SumAdjustments(writes, paths)]

RECURSIVE SerializeSections(_, _, _, _, _, _)
\* The reverse walk over a resized segment's section table from entry j
\* down: [buf, sections] with the table's offsets patched.
SerializeSections(buf, sections, j, section_shift, segname, writes) ==
  IF j = 0
  THEN [buf |-> buf, sections |-> sections]
  ELSE LET cur == sections[j]
           path == <<segname, cur.sectname>>
       IN IF path \notin DOMAIN writes
          THEN SerializeSections(
                 MemMove(buf, cur.offset + section_shift, cur.offset, cur.size),
                 [sections EXCEPT ![j].offset = @ + section_shift],
                 j - 1, section_shift, segname, writes)
          ELSE LET shift == section_shift - (writes[path].data_size
                                             - writes[path].existing_data_size)
               IN SerializeSections(
                    Overwrite(buf, cur.offset + shift, writes[path].data),
                    [sections EXCEPT ![j].offset = @ + shift],
                    j - 1, shift, segname, writes)

RECURSIVE SerializeSegments(_, _, _, _, _, _)
\* The reverse loop over the segments from segment i down, with total_resize
\* bytes of growth still to place: [buf, commands].
SerializeSegments(slice, resizes, buf, commands, i, total_resize) ==
  IF i = 0 \/ total_resize = 0
  THEN [buf |-> buf, commands |-> commands]
  ELSE LET command == slice.segments[i]
           resized == command.segname \in DOMAIN resizes
           segment_resize_bytes == IF resized THEN resizes[command.segname]
                                   ELSE 0
           new_data_offset == command.fileoff + total_resize
                              - segment_resize_bytes
           moved(w) ==
             SerializeSegments(slice, resizes, w.buf,
               [commands EXCEPT ![i] =
                  [@ EXCEPT !.fileoff = new_data_offset,
                            !.filesize = @ + segment_resize_bytes,
                            !.sections = w.sections]],
               i - 1, total_resize - segment_resize_bytes)
       IN IF ~resized
          THEN moved([buf |-> MemMove(buf, new_data_offset, command.fileoff,
                                      command.filesize),
                      sections |-> commands[i].sections])
          ELSE moved(SerializeSections(buf, commands[i].sections,
                                       Len(commands[i].sections),
                                       segment_resize_bytes, command.segname,
                                       slice.deferred_write_actions))

\* [retval, data, commands]: the bytes appended to an empty buffer and the
\* command table they hold.
SerializeWithDeferredWrites(slice, bytes, commands) ==
  LET buffer == LoadBuffer(slice, bytes)
      last == slice.segments[Len(slice.segments)]
      segment_data_end_offset == last.fileoff + last.filesize
      trailing_bytes == Len(buffer) - segment_data_end_offset
      serialized(w) == [retval |-> ERR_OK, data |-> w.buf,
                        commands |-> w.commands]
      resize(r) ==
        IF r.retval # ERR_OK
        THEN [retval |-> r.retval, data |-> buffer, commands |-> commands]
        ELSE serialized(SerializeSegments(slice, r.resizes,
               MemMove(buffer \o Fill(r.total_resize, 0),
                       segment_data_end_offset + r.total_resize,
                       segment_data_end_offset, trailing_bytes),
               commands, Len(slice.segments), r.total_resize))
  IN IF ~has_deferred_writes(slice)
     THEN [retval |-> ERR_OK, data |-> buffer, commands |-> commands]
     ELSE resize(CalculateDeferredWriteSegmentResizes(slice))

(***************************************************************************)
(* MachOContainer::PerformDeferredWrites.  content maps content_32 and     *)
(* content_64 to the image or to NoSlice; load_commands maps them to the   *)
(* command table the file holds for the image.                             *)
(***************************************************************************)
\* fseeko(offset) and fwrite(data): the file grows when the data ends
\* behind its end.
FileWrite(bytes, offset, data) ==
  SubSeq(bytes, 1, offset) \o data
    \o SubSeq(bytes, offset + Len(data) + 1, Len(bytes))

\* A commit that rewrites the 32-bit image whenever it has deferred writes.
PerformDeferredWritesFirst(content, bytes, load_commands) ==
  LET rewrite_needed(a) ==
        content[a] # NoSlice /\ has_deferred_writes(content[a])
      done(retval) == [retval |-> retval, bytes |-> bytes,
                       load_commands |-> load_commands, fwrites |-> <<>>]
      write(a, s) ==
        IF s.retval # ERR_OK
        THEN done(s.retval)
        ELSE [retval |-> ERR_OK,
              bytes |-> FileWrite(bytes, content[a].content_offset, s.data),
              load_commands |-> [load_commands EXCEPT ![a] = s.commands],
              fwrites |-> <<[offset |-> content[a].content_offset,
                             data |-> s.data]>>]
      rewrite(a) ==
        write(a, SerializeWithDeferredWrites(content[a], bytes,
                                             load_commands[a]))
  IN IF rewrite_needed("content_32") THEN rewrite("content_32")
     ELSE IF rewrite_needed("content_64") THEN rewrite("content_64")
     ELSE done(ERR_OK)

\* [retval, bytes, load_commands, fwrites]: fwrites lists the writes made.
PerformDeferredWrites(content, bytes, load_commands) ==
  LET rewrite_needed(a) ==
        content[a] # NoSlice /\ has_deferred_writes(content[a])
      done(retval) == [retval |-> retval, bytes |-> bytes,
                       load_commands |-> load_commands, fwrites |-> <<>>]
      write(a, s) ==
        IF s.retval # ERR_OK
        THEN done(s.retval)
        ELSE [retval |-> ERR_OK,
              bytes |-> FileWrite(bytes, content[a].content_offset, s.data),
              load_commands |-> [load_commands EXCEPT ![a] = s.commands],
              fwrites |-> <<[offset |-> content[a].content_offset,
                             data |-> s.data]>>]
      rewrite(a) ==
        write(a, SerializeWithDeferredWrites(content[a], bytes,
                                             load_commands[a]))
  IN IF rewrite_needed("content_32") /\ rewrite_needed("content_64")
     THEN done(ERR_NOT_IMPLEMENTED)
     ELSE IF rewrite_needed("content_32") THEN rewrite("content_32")
     ELSE IF rewrite_needed("content_64") THEN rewrite("content_64")
     ELSE done(ERR_OK)

(***************************************************************************)
(* DWARFStringPatcher::Patch, one stage per section.  Each stage yields    *)
(* [retval, slice, bytes, written]: the code it returns, the MachOFile and *)
(* the file's bytes afterwards, and the sections it handed to              *)
(* WriteSectionData.                                                       *)
(***************************************************************************)
kSegment == "__DWARF"

kLineInfoSection == "__debug_line"

kStringSection == "__debug_str"

kAbbreviationSection == "__debug_abbrev"

kInfoSection == "__debug_info"

Returned(retval, slice, bytes) ==
  [retval |-> retval, slice |-> slice, bytes |-> bytes, written |-> <<>>]

\* The outcome w of a WriteSectionData call for section_name.
Written(section_name, w) ==
  [retval |-> w.retval, slice |-> w.slice, bytes |-> w.bytes,
   written |-> <<section_name>>]

\* PatchLineInfoSection once ProcessLineInfoData has returned p for the
\* section data of data_length bytes: the choice between leaving the
\* section, ApplyLineInfoPatchesInPlace and ApplyLineInfoPatches.
ApplyLineInfoActions(f, bytes, data, data_length, p) ==
  LET write(new_data, data_size) ==
        Written(kLineInfoSection,
                WriteSectionData(f, bytes, kSegment, kLineInfoSection, new_data,
                                 data_size))
      rewrite(rewritten) ==
        IF rewritten.retval # ERR_OK
        THEN Returned(rewritten.retval, f, bytes)
        ELSE write(rewritten.new_data,
                   data_length + p.patched_section_size_increase)
  IN IF p.retval # ERR_OK THEN Returned(p.retval, f, bytes)
     ELSE IF p.patch_actions = <<>> THEN Returned(ERR_OK, f, bytes)
     ELSE IF p.patched_section_size_increase = 0
     THEN write(InPlaceLineInfoData(data, p.patch_actions), data_length)
     ELSE rewrite(RewriteLineInfoData(data, p.patch_actions))

PatchLineInfoSection(f, bytes, old_prefix, new_prefix) ==
  LET process(r) ==
        IF ~r.found THEN Returned(ERR_OK, f, bytes)
        ELSE ApplyLineInfoActions(f, bytes, r.data, r.size,
               ProcessLineInfoData(r.data, old_prefix, new_prefix))
  IN process(ReadSectionData(f, bytes, kSegment, kLineInfoSection, 0))

NoRelocations == [o \in {} |-> 0]

\* The __debug_str part of Patch.  proceed tells whether Patch goes on to
\* the abbreviation and info sections or returns retval here; junk is the
\* value of the bytes RewriteStringSection allocates and never stores to.
PatchStringSection(f, bytes, old_prefix, new_prefix, junk) ==
  LET stop(w) == [retval |-> w.retval, slice |-> w.slice, bytes |-> w.bytes,
                  written |-> w.written,
                  string_relocation_table |-> NoRelocations, proceed |-> FALSE]
      write(data, data_size) ==
        Written(kStringSection,
                WriteSectionData(f, bytes, kSegment, kStringSection, data,
                                 data_size))
      in_place(r, u) ==
        IF u.data_was_modified
        THEN stop(write(u.data, r.size - 1))
        ELSE stop(Returned(ERR_OK, f, bytes))
      written(rewritten, w) ==
        IF w.retval \notin {ERR_OK, ERR_WRITE_DEFERRED}
        THEN stop(w)
        ELSE [retval |-> w.retval, slice |-> w.slice, bytes |-> w.bytes,
              written |-> w.written,
              string_relocation_table |-> rewritten.relocation_table,
              proceed |-> TRUE]
      replace(rewritten) ==
        IF ~rewritten.data_was_modified
        THEN stop(Returned(ERR_OK, f, bytes))
        ELSE written(rewritten,
                     write(rewritten.new_data, rewritten.new_data_length - 1))
      process(r) ==
        IF ~r.found THEN stop(Returned(ERR_OK, f, bytes))
        ELSE IF Len(new_prefix) <= Len(old_prefix)
        THEN in_place(r, UpdateStringSectionInPlace(r.data, r.size,
                                                    old_prefix, new_prefix))
        ELSE replace(RewriteStringSection(r.data, r.size, old_prefix,
                                          new_prefix, junk))
  IN process(ReadSectionData(f, bytes, kSegment, kStringSection, 1))

\* A PatchInfoSection that writes the section after every successful walk.
PatchInfoSectionAlwaysWritten(f, bytes, string_relocation_table, abbreviation_table_map) ==
  LET walked(r, w) ==
        IF w.retval # ERR_OK THEN Returned(w.retval, f, bytes)
        ELSE Written(kInfoSection,
                     WriteSectionData(f, bytes, kSegment, kInfoSection, w.data,
                                      r.size))
      process(r) ==
        IF ~r.found THEN Returned(ERR_INVALID_FILE, f, bytes)
        ELSE walked(r, PatchUnits(r.data, 0, FALSE, string_relocation_table,
                                  abbreviation_table_map))
  IN process(ReadSectionData(f, bytes, kSegment, kInfoSection, 0))

\* A PatchInfoSection that writes whatever the walk modified before it failed.
PatchInfoSectionWrittenOnFailure(f, bytes, string_relocation_table, abbreviation_table_map) ==
  LET walked(r, w) ==
        IF ~w.modified THEN Returned(w.retval, f, bytes)
        ELSE Written(kInfoSection,
                     WriteSectionData(f, bytes, kSegment, kInfoSection, w.data,
                                      r.size))
      process(r) ==
        IF ~r.found THEN Returned(ERR_INVALID_FILE, f, bytes)
        ELSE walked(r, PatchUnits(r.data, 0, FALSE, string_relocation_table,
                                  abbreviation_table_map))
  IN process(ReadSectionData(f, bytes, kSegment, kInfoSection, 0))

PatchInfoSection(f, bytes, string_relocation_table, abbreviation_table_map) ==
  LET walked(r, w) ==
        IF w.retval # ERR_OK THEN Returned(w.retval, f, bytes)
        ELSE IF ~w.modified THEN Returned(ERR_OK, f, bytes)
        ELSE Written(kInfoSection,
                     WriteSectionData(f, bytes, kSegment, kInfoSection, w.data,
                                      r.size))
      process(r) ==
        IF ~r.found THEN Returned(ERR_INVALID_FILE, f, bytes)
        ELSE walked(r, PatchUnits(r.data, 0, FALSE, string_relocation_table,
                                  abbreviation_table_map))
  IN process(ReadSectionData(f, bytes, kSegment, kInfoSection, 0))

\* Where Patch continues after PatchLineInfoSection returned retval.
AfterLineInfoSection(retval) == IF retval # ERR_OK THEN "done" ELSE "str"

\* A Patch that walks the abbreviation section after any string section.
AfterStringSectionAlways(proceed) == "abbrev"

\* Where Patch continues after the string section.
AfterStringSection(proceed) == IF proceed THEN "abbrev" ELSE "done"

\* Where Patch continues after ProcessAbbrevSection returned retval.
AfterAbbrevSection(retval) == IF retval # ERR_OK THEN "done" ELSE "info"

(***************************************************************************)
(* The two patchers as whole calls on one image.                           *)
(***************************************************************************)
RECURSIVE PatchFilenameGroups(_, _, _, _, _)
\* The loop of PatchFilenamesAndInvalidate from group i on: null tells that
\* a Serialize failed and nullptr was returned.
PatchFilenameGroups(filename_groups, i, old_prefix, new_prefix, replacement_groups) ==
  LET next(g, p) ==
        IF ~p.needs_rewrite
        THEN PatchFilenameGroups(filename_groups, i + 1, old_prefix, new_prefix,
                                 replacement_groups)
        ELSE IF ~p.result.ok
        THEN [null |-> TRUE, replacement_groups |-> replacement_groups]
        ELSE PatchFilenameGroups(
               filename_groups, i + 1, old_prefix, new_prefix,
               Append(replacement_groups,
                      [offset |-> g.offset, original_size |-> g.size,
                       serialized_data |-> p.result.v]))
  IN IF i > Len(filename_groups)
     THEN [null |-> FALSE, replacement_groups |-> replacement_groups]
     ELSE next(filename_groups[i],
               PatchFilenameGroup(filename_groups[i], old_prefix, new_prefix))

\* The rest of CovmapPatcher::Patch once PatchCovmapSection returned s with
\* data_was_modified.
WriteCovmapSection(f, bytes, s, data_was_modified, section_length) ==
  LET accept(w) ==
        [w EXCEPT !.retval = IF @ \notin {ERR_OK, ERR_WRITE_DEFERRED}
                             THEN @ ELSE ERR_OK]
  IN IF s.null THEN Returned(ERR_INVALID_FILE, f, bytes)
     ELSE IF ~data_was_modified THEN Returned(ERR_OK, f, bytes)
     ELSE accept(Written("__llvm_covmap",
                         WriteSectionData(f, bytes, "__DATA", "__llvm_covmap",
                                          s.data, section_length)))

CovmapPatcherPatch(f, bytes, old_prefix, new_prefix) ==
  LET patched(r, l) ==
        IF l.null THEN Returned(ERR_INVALID_FILE, f, bytes)
        ELSE WriteCovmapSection(
               f, bytes,
               ReplacedSection(r.data, l.replacement_groups,
                               l.replacement_groups # <<>>),
               l.replacement_groups # <<>>, r.size)
      parsed(r, p) ==
        IF p.retval # ERR_OK THEN Returned(p.retval, f, bytes)
        ELSE patched(r, PatchFilenameGroups(p.filename_groups, 1, old_prefix,
                                            new_prefix, <<>>))
      read(r) ==
        IF ~r.found THEN Returned(ERR_OK, f, bytes)
        ELSE parsed(r, Parse(r.data))
  IN read(ReadSectionData(f, bytes, "__DATA", "__llvm_covmap", 0))

DWARFStringPatcherPatch(f, bytes, old_prefix, new_prefix, junk) ==
  LET info(s, a) ==
        IF AfterAbbrevSection(a.retval) = "done"
        THEN Returned(a.retval, s.slice, s.bytes)
        ELSE PatchInfoSection(s.slice, s.bytes, s.string_relocation_table,
                              a.table_map)
      abbrev(s, r) == info(s, ProcessAbbrevSection(r.found, r.data))
      str(s) ==
        IF AfterStringSection(s.proceed) = "done"
        THEN Returned(s.retval, s.slice, s.bytes)
        ELSE abbrev(s, ReadSectionData(s.slice, s.bytes, kSegment,
                                       kAbbreviationSection, 0))
      line(l) ==
        IF AfterLineInfoSection(l.retval) = "done"
        THEN Returned(l.retval, l.slice, l.bytes)
        ELSE str(PatchStringSection(l.slice, l.bytes, old_prefix, new_prefix,
                                    junk))
  IN line(PatchLineInfoSection(f, bytes, old_prefix, new_prefix))

(***************************************************************************)
(* main.cc: the driver's own patch of one image.  settings holds the mode  *)
(* flags patch_dwarf_symbols and patch_coverage_maps of PatchSettings.     *)
(***************************************************************************)
\* PatchCovmapSection: null tells that it returned nullptr.
PatchCovmapSection(old_prefix, new_prefix, data) ==
  LET null == [null |-> TRUE, data |-> <<>>, data_was_modified |-> FALSE]
      replaced(l, s) ==
        [null |-> s.null, data |-> s.data,
         data_was_modified |-> l.replacement_groups # <<>>]
      patched(l) ==
        IF l.null THEN null
        ELSE replaced(l, ReplacedSection(data, l.replacement_groups,
                                         l.replacement_groups # <<>>))
      parsed(p) ==
        IF p.retval # ERR_OK THEN null
        ELSE patched(PatchFilenameGroups(p.filename_groups, 1, old_prefix,
                                         new_prefix, <<>>))
  IN IF Len(new_prefix) > Len(old_prefix) THEN null ELSE parsed(Parse(data))

\* PatchDWARFStringSection with UpdateDWARFStringSectionInPlace and
\* UpdateDWARFStringSection, which hold the loops of the patcher class's
\* UpdateStringSectionInPlace and RewriteStringSection.
PatchDWARFStringSection(old_prefix, new_prefix, data, data_length, junk) ==
  LET in_place(u) ==
        [data |-> u.data, data_length |-> data_length - 1,
         data_was_modified |-> u.data_was_modified]
      rewritten(r) ==
        [data |-> r.new_data, data_length |-> r.new_data_length - 1,
         data_was_modified |-> r.data_was_modified]
  IN IF Len(new_prefix) <= Len(old_prefix)
     THEN in_place(UpdateStringSectionInPlace(data, data_length, old_prefix,
                                              new_prefix))
     ELSE rewritten(RewriteStringSection(data, data_length, old_prefix,
                                         new_prefix, junk))

\* Patch(f, settings): [retval, slice, bytes, written] with retval the int
\* it returns and written the section paths handed to WriteSectionData.
Patch(f, bytes, settings, old_prefix, new_prefix, junk) ==
  LET exit(retval, slice, file_bytes, written) ==
        [retval |-> retval, slice |-> slice, bytes |-> file_bytes,
         written |-> written]
      wrote(c, path, w) ==
        exit(IF w.retval = ERR_WRITE_FAILED THEN 1 ELSE 0, w.slice, w.bytes,
             Append(c.written, path))
      str(c, p) ==
        IF ~p.data_was_modified THEN c
        ELSE wrote(c, <<"__DWARF", "__debug_str">>,
                   WriteSectionData(c.slice, c.bytes, "__DWARF", "__debug_str",
                                    p.data, p.data_length))
      dwarf_read(c, r) ==
        IF ~r.found THEN c
        ELSE str(c, PatchDWARFStringSection(old_prefix, new_prefix, r.data,
                                            r.size, junk))
      dwarf(c) ==
        IF c.retval # 0 \/ ~settings.patch_dwarf_symbols THEN c
        ELSE dwarf_read(c, ReadSectionData(c.slice, c.bytes, "__DWARF",
                                           "__debug_str", 1))
      start == exit(0, f, bytes, <<>>)
      covmap(r, p) ==
        IF p.null THEN exit(1, f, bytes, <<>>)
        ELSE IF ~p.data_was_modified THEN start
        ELSE wrote(start, <<"__DATA", "__llvm_covmap">>,
                   WriteSectionData(f, bytes, "__DATA", "__llvm_covmap",
                                    p.data, r.size))
      covmap_read(r) ==
        IF ~r.found THEN start
        ELSE covmap(r, PatchCovmapSection(old_prefix, new_prefix, r.data))
  IN dwarf(IF settings.patch_coverage_maps
           THEN covmap_read(ReadSectionData(f, bytes, "__DATA",
                                            "__llvm_covmap", 0))
           ELSE start)

(***************************************************************************)
(* Input files.  A file is laid out from a list of segments, each a        *)
(* [segname, sections] with sections a list of [sectname, data]: the       *)
(* header, then every section's bytes in order, each segment spanning its  *)
(* sections.                                                               *)
(***************************************************************************)
MachHeader == <<254>>

SegmentSize(seg) ==
  SumSeq([j \in 1..Len(seg.sections) |-> Len(seg.sections[j].data)])

LayoutSections(sections, fileoff) ==
  [j \in 1..Len(sections) |->
     [sectname |-> sections[j].sectname,
      offset |-> fileoff + SumSeq([k \in 1..(j - 1) |-> Len(sections[k].data)]),
      size |-> Len(sections[j].data)]]

LayoutSegments(segs) ==
  [i \in 1..Len(segs) |->
     LET fileoff == Len(MachHeader)
                    + SumSeq([k \in 1..(i - 1) |-> SegmentSize(segs[k])])
     IN [segname |-> segs[i].segname,
         fileoff |-> fileoff,
         filesize |-> SegmentSize(segs[i]),
         sections |-> LayoutSections(segs[i].sections, fileoff)]]

\* The image: header, sections, and the bytes that follow the last segment.
SliceBytes(segs, trailer) ==
  MachHeader \o Concat([i \in 1..Len(segs) |->
                          Concat([j \in 1..Len(segs[i].sections) |->
                                    segs[i].sections[j].data])])
             \o trailer

\* The MachOFile that Read builds for the slice at content_offset.
MakeSlice(segs, trailer, content_offset) ==
  [content_offset |-> content_offset,
   content_size |-> Len(SliceBytes(segs, trailer)),
   swap_byte_ordering |-> FALSE,
   segments |-> LayoutSegments(segs),
   deferred_write_actions |-> NoDeferredWrites]

Section(sectname, data) == [sectname |-> sectname, data |-> data]

Segment(segname, sections) == [segname |-> segname, sections |-> sections]

\* A string table: the strings, NUL-separated, the last one unterminated.
StringTables == SeqsOf(Strings, 1, MaxStrings)

StringSectionData(table) ==
  LET all == Concat([i \in 1..Len(table) |-> table[i] \o <<0>>])
  IN SubSeq(all, 1, Len(all) - 1)

\* The offsets at which the strings of a table start.
StringOffsets(table) ==
  {SumSeq([k \in 1..(i - 1) |-> Len(table[k]) + 1]) : i \in 1..Len(table)}

\* A version 2 line-number unit whose include_directories are dirs, with an
\* empty file table and a one-byte program.
LineInfoUnit(dirs) ==
  LET directories == Concat([i \in 1..Len(dirs) |-> dirs[i] \o <<0>>]) \o <<0>>
      header == <<1, 1, 1, 1, 1>> \o directories \o <<0>>
      body == <<2, 0>> \o ToLittleEndian(Len(header), 4) \o header \o <<7>>
  IN ToLittleEndian(Len(body), 4) \o body

\* One abbreviation table: code 1, a compile unit without children, with a
\* DW_FORM_strp name and a DW_FORM_data1 attribute.
AbbrevSectionData == <<1, 17, 0, 3, DW_FORM_strp, 11, DW_FORM_data1, 0, 0, 0>>

\* A version 4 unit of the 32-bit format with one entry for each of offsets.
InfoSectionData(offsets) ==
  LET entries == Concat([i \in 1..Len(offsets) |->
                           <<1>> \o ToLittleEndian(offsets[i], 4) \o <<5>>])
      body == <<4, 0>> \o ToLittleEndian(0, 4) \o <<8>> \o entries
  IN ToLittleEndian(Len(body), 4) \o body

\* The string offsets of a table in increasing order.
RECURSIVE SortedOffsets(_)
SortedOffsets(S) ==
  IF S = {} THEN <<>>
  ELSE LET m == CHOOSE x \in S : \A y \in S : x <= y
       IN <<m>> \o SortedOffsets(S \ {m})

(***************************************************************************)
(* State.                                                                  *)
(***************************************************************************)
VARIABLES
  old_prefix, new_prefix,    \* the patcher's prefix pair
  file,                      \* the bytes of the file on disk
  content,                   \* the container's content_32_ and content_64_
  original,                  \* file and content as they were read
  cur,                       \* the image being patched
  pc,                        \* where the running operation stands
  retval,                    \* the code the last call returned
  string_relocation_table,   \* Patch's map of old to new string offsets
  abbreviation_table_map,    \* Patch's abbreviation tables
  sections_read,             \* the sections Patch has processed, in order
  load_commands,             \* the segment command tables the file holds
  call,                      \* the last call made on the container
  before,                    \* file, content and load_commands before it
  targets,                   \* the sections handed to WriteSectionData
  passes,                    \* the prefix pairs of the runs of the tool
  run,                       \* the run under way
  covmap_section,            \* the CovmapSection being patched
  next_group,                \* the filename group its patch loop is at
  replacement_groups,        \* the loop's list of rewritten groups
  data_was_modified,         \* the loop's *data_was_modified
  disk,                      \* the files named on main's command line
  position,                  \* the file main's loop is at
  patch_settings,            \* main's mode flags
  prefix_map,                \* the prefix map of the multi-prefix mode
  buffer,                    \* the bytes a DWARFBufferReader reads
  read_position,             \* its read_position()
  swap_byte_ordering,        \* its swap_byte_ordering_
  patch_actions              \* the LineInfoPatch list of the loop driving it

patchVars == <<old_prefix, new_prefix, passes, run, prefix_map>>

fileVars == <<file, content, original, cur>>

ctlVars == <<pc, retval>>

dwarfVars == <<string_relocation_table, abbreviation_table_map, sections_read>>

machoVars == <<load_commands, call, before, targets>>

covmapVars ==
  <<covmap_section, next_group, replacement_groups, data_was_modified>>

driverVars == <<disk, position, patch_settings>>

readerVars == <<buffer, read_position, swap_byte_ordering, patch_actions>>

vars == <<patchVars, fileVars, ctlVars, dwarfVars, machoVars, covmapVars,
          driverVars, readerVars>>

Archs == {"content_32", "content_64"}

\* A thin file holding the one image slice.
ThinContent(slice) ==
  [a \in Archs |-> IF a = "content_64" THEN slice ELSE NoSlice]

\* The command tables of a file just read: those the images were parsed from.
CommandsOf(images) ==
  [a \in Archs |-> IF images[a] = NoSlice THEN <<>> ELSE images[a].segments]

NoCall == [op |-> "none"]

MachOIdle ==
  /\ load_commands = CommandsOf(content)
  /\ call = NoCall
  /\ before = [file |-> file, content |-> content,
               load_commands |-> load_commands]
  /\ targets = <<>>

DwarfIdle ==
  /\ string_relocation_table = NoRelocations
  /\ abbreviation_table_map = NoAbbreviationTables
  /\ sections_read = <<>>

NoCovmapSection == [absent |-> TRUE]

CovmapIdle ==
  /\ covmap_section = NoCovmapSection
  /\ next_group = 1
  /\ replacement_groups = <<>>
  /\ data_was_modified = FALSE

DriverIdle ==
  /\ disk = <<>>
  /\ position = 1
  /\ patch_settings = [patch_dwarf_symbols |-> TRUE,
                       patch_coverage_maps |-> TRUE]

ReaderIdle ==
  /\ buffer = <<>>
  /\ read_position = 0
  /\ swap_byte_ordering = FALSE
  /\ patch_actions = <<>>

\* The sections a patcher stage handed to WriteSectionData, added to targets.
Handed(segment_name, written) ==
  targets \o [i \in 1..Len(written) |-> <<cur, segment_name, written[i]>>]

(***************************************************************************)
(* DWARFStringPatcher::Patch on a file with a __DWARF segment.             *)
(***************************************************************************)
DwarfSections == {kLineInfoSection, kStringSection, kAbbreviationSection,
                  kInfoSection}

\* The __DWARF segment with the given directory and string table, every
\* string of the table referenced from __debug_info, and without the
\* section named missing.
DwarfSegment(dir, table, missing) ==
  Segment(kSegment,
          SelectSeq(<<Section(kLineInfoSection, LineInfoUnit(<<dir>>)),
                      Section(kStringSection, StringSectionData(table)),
                      Section(kAbbreviationSection, AbbrevSectionData),
                      Section(kInfoSection,
                              InfoSectionData(SortedOffsets(StringOffsets(table))))>>,
                    LAMBDA x : x.sectname # missing))

InitDwarf ==
  /\ old_prefix \in Prefixes
  /\ new_prefix \in Prefixes
  /\ \E dir \in Strings, table \in StringTables,
        missing \in DwarfSections \cup {"none"} :
       LET segs == <<DwarfSegment(dir, table, missing)>>
       IN /\ file = SliceBytes(segs, <<>>)
          /\ content = ThinContent(MakeSlice(segs, <<>>, 0))
  /\ original = [file |-> file, content |-> content]
  /\ cur = "content_64"
  /\ pc = "line"
  /\ retval = ERR_OK
  /\ passes = <<>>
  /\ run = 1
  /\ prefix_map = <<>>
  /\ DwarfIdle
  /\ MachOIdle
  /\ CovmapIdle
  /\ DriverIdle
  /\ ReaderIdle

DwarfPatchLineInfo ==
  /\ pc = "line"
  /\ \E r \in {PatchLineInfoSection(content[cur], file, old_prefix, new_prefix)} :
        /\ content' = [content EXCEPT ![cur] = r.slice]
        /\ file' = r.bytes
        /\ retval' = r.retval
        /\ pc' = AfterLineInfoSection(r.retval)
        /\ targets' = Handed(kSegment, r.written)
  /\ sections_read' = Append(sections_read, kLineInfoSection)
  /\ UNCHANGED <<patchVars, driverVars, readerVars, covmapVars, load_commands, call, before, original,
                 cur, string_relocation_table, abbreviation_table_map>>

DwarfPatchString ==
  /\ pc = "str"
  /\ \E junk \in Indeterminate :
       \E r \in {PatchStringSection(content[cur], file, old_prefix,
                                     new_prefix, junk)} :
          /\ content' = [content EXCEPT ![cur] = r.slice]
          /\ file' = r.bytes
          /\ retval' = r.retval
          /\ string_relocation_table' = r.string_relocation_table
          /\ pc' = AfterStringSection(r.proceed)
          /\ targets' = Handed(kSegment, r.written)
  /\ sections_read' = Append(sections_read, kStringSection)
  /\ UNCHANGED <<patchVars, driverVars, readerVars, covmapVars, load_commands, call, before, original,
                 cur, abbreviation_table_map>>

DwarfProcessAbbrev ==
  /\ pc = "abbrev"
  /\ \E r \in {ReadSectionData(content[cur], file, kSegment,
                               kAbbreviationSection, 0)} :
      \E a \in {ProcessAbbrevSection(r.found, r.data)} :
        /\ abbreviation_table_map' = a.table_map
        /\ retval' = a.retval
        /\ pc' = AfterAbbrevSection(a.retval)
  /\ sections_read' = Append(sections_read, kAbbreviationSection)
  /\ UNCHANGED <<patchVars, driverVars, readerVars, covmapVars, machoVars, fileVars,
                 string_relocation_table>>

DwarfPatchInfo ==
  /\ pc = "info"
  /\ \E r \in {PatchInfoSection(content[cur], file,
                                  string_relocation_table,
                                  abbreviation_table_map)} :
        /\ content' = [content EXCEPT ![cur] = r.slice]
        /\ file' = r.bytes
        /\ retval' = r.retval
        /\ targets' = Handed(kSegment, r.written)
  /\ pc' = "done"
  /\ sections_read' = Append(sections_read, kInfoSection)
  /\ UNCHANGED <<patchVars, driverVars, readerVars, covmapVars, load_commands, call, before, original,
                 cur, string_relocation_table, abbreviation_table_map>>

NextDwarf ==
  \/ DwarfPatchLineInfo
  \/ DwarfPatchString
  \/ DwarfProcessAbbrev
  \/ DwarfPatchInfo

SpecDwarf == InitDwarf /\ [][NextDwarf]_vars

(***************************************************************************)
(* The container under a client that hands sections to WriteSectionData    *)
(* and then commits: MachOFile::WriteSectionData and                       *)
(* MachOContainer::PerformDeferredWrites.                                  *)
(***************************************************************************)
\* Most WriteSectionData calls before the commit.
MaxWrites == 2

FatHeader == <<202>>

\* An image of two segments whose section bytes start at base.
ImageSegments(dwarf_first, base) ==
  LET dwarf == Segment(kSegment,
                       <<Section(kLineInfoSection, <<base + 1, base + 2>>),
                         Section(kStringSection, <<base + 3, base + 4>>)>>)
      other == Segment("__LINKEDIT", <<Section("__symbols", <<base + 5>>)>>)
  IN IF dwarf_first THEN <<dwarf, other>> ELSE <<other, dwarf>>

\* The sections a client asks for: three that exist, and one whose name
\* exists under another segment only.
WritePaths ==
  {<<kSegment, kLineInfoSection>>, <<kSegment, kStringSection>>,
   <<"__LINKEDIT", "__symbols">>, <<kSegment, "__symbols">>}

\* A thin 32-bit file, a thin 64-bit file, or a fat file holding both.
InitMachO ==
  /\ \E dwarf_first \in BOOLEAN, trailer \in {<<>>, <<9>>},
        kind \in {"thin_32", "thin_64", "fat"} :
       LET segs_32 == ImageSegments(dwarf_first, 10)
           segs_64 == ImageSegments(dwarf_first, 20)
           image_32 == SliceBytes(segs_32, trailer)
           image_64 == SliceBytes(segs_64, trailer)
       IN CASE kind = "thin_32" ->
                 /\ file = image_32
                 /\ content = [a \in Archs |->
                                 IF a = "content_32"
                                 THEN MakeSlice(segs_32, trailer, 0)
                                 ELSE NoSlice]
            [] kind = "thin_64" ->
                 /\ file = image_64
                 /\ content = ThinContent(MakeSlice(segs_64, trailer, 0))
            [] kind = "fat" ->
                 /\ file = FatHeader \o image_32 \o image_64
                 /\ content = [a \in Archs |->
                                 IF a = "content_32"
                                 THEN MakeSlice(segs_32, trailer, Len(FatHeader))
                                 ELSE MakeSlice(segs_64, trailer,
                                                Len(FatHeader) + Len(image_32))]
  /\ original = [file |-> file, content |-> content]
  /\ old_prefix = <<>>
  /\ new_prefix = <<>>
  /\ cur = "content_64"
  /\ pc = "patch"
  /\ retval = ERR_OK
  /\ passes = <<>>
  /\ run = 1
  /\ prefix_map = <<>>
  /\ DwarfIdle
  /\ MachOIdle
  /\ CovmapIdle
  /\ DriverIdle
  /\ ReaderIdle

Snapshot == [file |-> file, content |-> content,
             load_commands |-> load_commands]

\* A client replaces a section's data by data_size bytes.
MachOWriteSection ==
  /\ pc = "patch"
  /\ Len(targets) < MaxWrites
  /\ \E a \in {x \in Archs : content[x] # NoSlice}, path \in WritePaths,
        delta \in {-1, 0, 1} :
       LET size == GetSectionInfo(content[a], path[1], path[2]).section_size
           data_size == Max(0, size + delta)
           data == Fill(data_size, 200 + Len(targets))
       IN \E w \in {WriteSectionData(content[a], file, path[1], path[2],
                                     data, data_size)} :
            /\ content' = [content EXCEPT ![a] = w.slice]
            /\ file' = w.bytes
            /\ retval' = w.retval
            /\ call' = [op |-> "write", arch |-> a, segment |-> path[1],
                        section |-> path[2], data |-> data,
                        data_size |-> data_size]
            /\ targets' = Append(targets, <<a, path[1], path[2]>>)
  /\ before' = Snapshot
  /\ UNCHANGED <<patchVars, driverVars, readerVars, covmapVars, original, cur, pc, dwarfVars,
                 load_commands>>

\* The client commits.
MachOPerformDeferredWrites ==
  /\ pc = "patch"
  /\ \E r \in {PerformDeferredWrites(content, file, load_commands)} :
       /\ file' = r.bytes
       /\ load_commands' = r.load_commands
       /\ retval' = r.retval
       /\ call' = [op |-> "commit", fwrites |-> r.fwrites]
  /\ before' = Snapshot
  /\ pc' = "done"
  /\ UNCHANGED <<patchVars, driverVars, readerVars, covmapVars, content, original, cur, dwarfVars,
                 targets>>

NextMachO ==
  \/ MachOWriteSection
  \/ MachOPerformDeferredWrites

SpecMachO == InitMachO /\ [][NextMachO]_vars

(***************************************************************************)
(* CovmapPatcher::Patch on a file with a __DATA segment.                   *)
(***************************************************************************)
\* A coverage mapping of the given version: its header, records function
\* records, the filename group and the coverage data.
CoverageMapping(version, records, filenames, coverage) ==
  LET group == Serialize([size |-> CalculateSize(filenames), offset |-> 0,
                          filenames |-> filenames], 0).v
  IN ToLittleEndian(records, 4) \o ToLittleEndian(Len(group), 4)
     \o ToLittleEndian(Len(coverage), 4) \o ToLittleEndian(version - 1, 4)
     \o Fill(records * (IF version = 1 THEN 24 ELSE 20), 0)
     \o group \o coverage

RECURSIVE CovmapSectionData(_)
\* The mappings in order, each but the last one followed by zeros up to
\* the next 8 byte boundary.
CovmapSectionData(mappings) ==
  IF Len(mappings) = 1
  THEN Head(mappings)
  ELSE Head(mappings) \o Fill((8 - (Len(Head(mappings)) % 8)) % 8, 0)
       \o CovmapSectionData(Tail(mappings))

\* The sections under test: one mapping, two mappings, one mapping followed
\* by a stray byte, no coverage map at all, and a mapping followed by one
\* whose group has 127 filenames, the most a one byte count can tell.
CovmapShapes == {"one", "two", "trailing", "missing", "full"}

CovmapSegment(table, shape) ==
  LET first == CoverageMapping(2, 1, table, <<7>>)
      second == CoverageMapping(1, 0, <<<<97>>, <<97, 98>>>>, <<>>)
      full == CoverageMapping(2, 0, <<table[1]>> \o Fill(126, <<98>>), <<>>)
      data == CASE shape = "two" -> CovmapSectionData(<<first, second>>)
                [] shape = "full" -> CovmapSectionData(<<first, full>>)
                [] shape = "trailing" -> first \o <<0>>
                [] OTHER -> first
  IN Segment("__DATA",
             IF shape = "missing"
             THEN <<Section("__data", <<1>>)>>
             ELSE <<Section("__llvm_covmap", data), Section("__data", <<1>>)>>)

InitCovmap ==
  /\ old_prefix \in Prefixes
  /\ new_prefix \in Prefixes
  /\ \E table \in StringTables, shape \in CovmapShapes :
       LET segs == <<CovmapSegment(table, shape)>>
       IN /\ file = SliceBytes(segs, <<>>)
          /\ content = ThinContent(MakeSlice(segs, <<>>, 0))
  /\ original = [file |-> file, content |-> content]
  /\ cur = "content_64"
  /\ pc = "covmap"
  /\ retval = ERR_OK
  /\ passes = <<>>
  /\ run = 1
  /\ prefix_map = <<>>
  /\ DwarfIdle
  /\ MachOIdle
  /\ CovmapIdle
  /\ DriverIdle
  /\ ReaderIdle

\* Patch up to the end of CovmapSection::Parse.
CovmapParse ==
  /\ pc = "covmap"
  /\ \E r \in {ReadSectionData(content[cur], file, "__DATA", "__llvm_covmap", 0)} :
       IF ~r.found
       THEN /\ retval' = ERR_OK
            /\ pc' = "covmap_done"
            /\ covmap_section' = NoCovmapSection
       ELSE \E parsed \in {Parse(r.data)} :
              /\ covmap_section' = [section_data |-> r.data,
                                    section_length |-> r.size,
                                    filename_groups |-> parsed.filename_groups]
              /\ retval' = parsed.retval
              /\ pc' = IF parsed.retval # ERR_OK THEN "covmap_done"
                                                 ELSE "covmap_groups"
  /\ next_group' = 1
  /\ replacement_groups' = <<>>
  /\ data_was_modified' = FALSE
  /\ UNCHANGED <<patchVars, driverVars, readerVars, fileVars, dwarfVars, machoVars>>

\* One round of the loop of PatchFilenamesAndInvalidate; a Serialize that
\* fails makes it return nullptr and Patch return ERR_INVALID_FILE.
CovmapPatchGroup ==
  /\ pc = "covmap_groups"
  /\ next_group <= Len(covmap_section.filename_groups)
  /\ \E g \in {covmap_section.filename_groups[next_group]} :
       \E p \in {PatchFilenameGroup(g, old_prefix, new_prefix)} :
         IF ~p.needs_rewrite
         THEN UNCHANGED <<replacement_groups, data_was_modified, ctlVars, call>>
         ELSE /\ data_was_modified' = TRUE
              /\ call' = [op |-> "serialize", group |-> p.new_group,
                          minimum_size |-> p.minimum_size,
                          ok |-> p.result.ok, v |-> p.result.v]
              /\ IF p.result.ok
                 THEN /\ replacement_groups' =
                           Append(replacement_groups,
                                  [offset |-> g.offset, original_size |-> g.size,
                                   serialized_data |-> p.result.v])
                      /\ UNCHANGED ctlVars
                 ELSE /\ retval' = ERR_INVALID_FILE
                      /\ pc' = "covmap_done"
                      /\ UNCHANGED replacement_groups
  /\ next_group' = next_group + 1
  /\ UNCHANGED <<patchVars, driverVars, readerVars, fileVars, dwarfVars, covmap_section, load_commands,
                 before, targets>>

\* The end of PatchFilenamesAndInvalidate and the rest of Patch.
CovmapWrite ==
  /\ pc = "covmap_groups"
  /\ next_group > Len(covmap_section.filename_groups)
  /\ \E s \in {ReplacedSection(covmap_section.section_data, replacement_groups,
                               data_was_modified)} :
       \E w \in {WriteCovmapSection(content[cur], file, s, data_was_modified,
                                     covmap_section.section_length)} :
         /\ content' = [content EXCEPT ![cur] = w.slice]
         /\ file' = w.bytes
         /\ retval' = w.retval
         /\ targets' = Handed("__DATA", w.written)
  /\ pc' = "covmap_done"
  /\ UNCHANGED <<patchVars, driverVars, readerVars, original, cur, dwarfVars, covmapVars, load_commands,
                 call, before>>

NextCovmap ==
  \/ CovmapParse
  \/ CovmapPatchGroup
  \/ CovmapWrite

SpecCovmap == InitCovmap /\ [][NextCovmap]_vars

(***************************************************************************)
(* Runs of both patchers, one after the other, on the same file: the      *)
(* coverage map patcher and then the DWARF patcher with the prefix pair   *)
(* of the run, and then again with the pair of the next run.               *)
(***************************************************************************)
\* A file carrying the strings of table as __debug_str strings, the last
\* of them as include directory, and filenames as covmap filenames.
ComposeSegments(filenames, table) ==
  <<CovmapSegment(filenames, "one"),
    DwarfSegment(table[Len(table)], table, "none")>>

InitCompose ==
  /\ \E old \in Prefixes, new \in Prefixes, newer \in Prefixes :
       /\ passes = <<<<old, new>>, <<new, newer>>>>
       /\ old_prefix = old
       /\ new_prefix = new
  /\ run = 1
  /\ prefix_map = <<>>
  /\ \E table \in StringTables :
       \E filenames \in {table, <<table[Len(table)]>>} :
         /\ file = SliceBytes(ComposeSegments(filenames, table), <<>>)
         /\ content = ThinContent(MakeSlice(ComposeSegments(filenames, table),
                                            <<>>, 0))
  /\ original = [file |-> file, content |-> content]
  /\ cur = "content_64"
  /\ pc = "covmap"
  /\ retval = ERR_OK
  /\ DwarfIdle
  /\ MachOIdle
  /\ CovmapIdle
  /\ DriverIdle
  /\ ReaderIdle

\* The coverage maps are patched; the DWARF patcher is next.
ComposeStartDwarf ==
  /\ pc = "covmap_done"
  /\ retval = ERR_OK
  /\ pc' = "line"
  /\ UNCHANGED <<patchVars, driverVars, readerVars, fileVars, retval, dwarfVars, machoVars, covmapVars>>

\* A run that succeeded and left every write in the file is followed by
\* the next run, which reads the file again.
ComposeNextRun ==
  /\ pc = "done"
  /\ retval = ERR_OK
  /\ ~has_deferred_writes(content[cur])
  /\ run < Len(passes)
  /\ run' = run + 1
  /\ old_prefix' = passes[run + 1][1]
  /\ new_prefix' = passes[run + 1][2]
  /\ pc' = "covmap"
  /\ string_relocation_table' = NoRelocations
  /\ abbreviation_table_map' = NoAbbreviationTables
  /\ sections_read' = <<>>
  /\ covmap_section' = NoCovmapSection
  /\ next_group' = 1
  /\ replacement_groups' = <<>>
  /\ data_was_modified' = FALSE
  /\ UNCHANGED <<passes, prefix_map, fileVars, retval, machoVars, driverVars, readerVars>>

NextCompose ==
  \/ NextCovmap
  \/ ComposeStartDwarf
  \/ NextDwarf
  \/ ComposeNextRun

SpecCompose == InitCompose /\ [][NextCompose]_vars

(***************************************************************************)
(* main.cc: the loop of main over the files named on the command line.     *)
(* disk holds, for each file, its bytes and the container Read builds from *)
(* them, or no container for a file Read rejects.                          *)
(***************************************************************************)
\* Most files on the command line.
MaxFiles == 2

NoContainer == [a \in Archs |-> NoSlice]

\* A thin 64-bit file with the strings of table.
ThinFile(table) ==
  [readable |-> TRUE,
   file |-> SliceBytes(ComposeSegments(table, table), <<>>),
   content |-> ThinContent(MakeSlice(ComposeSegments(table, table), <<>>, 0))]

\* A fat file with a 32-bit and a 64-bit image with the strings of table.
FatFile(table) ==
  LET image == SliceBytes(ComposeSegments(table, table), <<>>)
  IN [readable |-> TRUE,
      file |-> FatHeader \o image \o image,
      content |->
        [a \in Archs |->
           MakeSlice(ComposeSegments(table, table), <<>>,
                     IF a = "content_32" THEN Len(FatHeader)
                     ELSE Len(FatHeader) + Len(image))]]

\* A file that is no Mach-O file.
InvalidFile == [readable |-> FALSE, file |-> <<0>>, content |-> NoContainer]

DriverFiles ==
  {ThinFile(<<s>>) : s \in Strings} \cup {FatFile(<<<<97>>>>), InvalidFile}

InitDriver ==
  /\ old_prefix \in Prefixes
  /\ new_prefix \in Prefixes
  /\ patch_settings \in [patch_dwarf_symbols : BOOLEAN,
                         patch_coverage_maps : BOOLEAN]
  /\ disk \in SeqsOf(DriverFiles, 1, MaxFiles)
  /\ position = 1
  /\ file = <<>>
  /\ content = NoContainer
  /\ original = [file |-> file, content |-> content]
  /\ cur = "content_32"
  /\ pc = "read"
  /\ retval = 0
  /\ passes = <<>>
  /\ run = 1
  /\ prefix_map = <<>>
  /\ DwarfIdle
  /\ MachOIdle
  /\ CovmapIdle
  /\ ReaderIdle

\* MachOContainer f(filename, verbose); f.Read().
DriverRead ==
  /\ pc = "read"
  /\ IF ~disk[position].readable
     THEN /\ retval' = ERR_INVALID_FILE
          /\ pc' = "exit"
          /\ UNCHANGED <<fileVars, machoVars>>
     ELSE /\ file' = disk[position].file
          /\ content' = disk[position].content
          /\ original' = [file |-> file', content |-> content']
          /\ load_commands' = CommandsOf(content')
          /\ call' = NoCall
          /\ before' = [file |-> file', content |-> content',
                        load_commands |-> load_commands']
          /\ targets' = <<>>
          /\ pc' = "patch_32"
          /\ UNCHANGED <<cur, retval>>
  /\ UNCHANGED <<patchVars, dwarfVars, covmapVars, driverVars, readerVars>>

\* if (f.Has32Bit()) and if (f.Has64Bit()): Patch on the image arch.
DriverPatch(arch, here, next) ==
  /\ pc = here
  /\ cur' = arch
  /\ IF content[arch] = NoSlice
     THEN /\ pc' = next
          /\ UNCHANGED <<file, content, retval, targets>>
     ELSE \E junk \in Indeterminate :
            \E p \in {Patch(content[arch], file, patch_settings, old_prefix,
                            new_prefix, junk)} :
              /\ content' = [content EXCEPT ![arch] = p.slice]
              /\ file' = p.bytes
              /\ retval' = p.retval
              /\ targets' = targets \o [i \in 1..Len(p.written) |->
                                          <<arch, p.written[i][1],
                                            p.written[i][2]>>]
              /\ pc' = IF p.retval # 0 THEN "exit" ELSE next
  /\ UNCHANGED <<patchVars, original, dwarfVars, covmapVars, driverVars, readerVars,
                 load_commands, call, before>>

DriverPatch32 == DriverPatch("content_32", "patch_32", "patch_64")

DriverPatch64 == DriverPatch("content_64", "patch_64", "end_of_body")

\* The end of the loop's body: the container goes out of scope, and main
\* goes on to the next file or returns 0.
DriverNextFile ==
  /\ pc = "end_of_body"
  /\ disk' = [disk EXCEPT ![position].file = file]
  /\ position' = position + 1
  /\ pc' = IF position = Len(disk) THEN "exit" ELSE "read"
  /\ retval' = 0
  /\ UNCHANGED <<patchVars, fileVars, dwarfVars, machoVars, covmapVars,
                 patch_settings, readerVars>>

NextDriver ==
  \/ DriverRead
  \/ DriverPatch32
  \/ DriverPatch64
  \/ DriverNextFile

SpecDriver == InitDriver /\ [][NextDriver]_vars

(***************************************************************************)
(* The replacement under a prefix map, applied to one string at a time.    *)
(***************************************************************************)
\* Most entries of a prefix map.
MaxEntries == 2

\* The prefix maps, each in every iteration order.
PrefixMaps ==
  {m \in SeqsOf(Prefixes \X Prefixes, 1, MaxEntries) :
     \A i, j \in 1..Len(m) : i # j => m[i][1] # m[j][1]}

InitPrefixMap ==
  /\ prefix_map \in PrefixMaps
  /\ old_prefix = prefix_map[1][1]
  /\ new_prefix = prefix_map[1][2]
  /\ passes = <<>>
  /\ run = 1
  /\ file = <<>>
  /\ content = [a \in Archs |-> NoSlice]
  /\ original = [file |-> file, content |-> content]
  /\ cur = "content_64"
  /\ pc = "patch"
  /\ retval = ERR_OK
  /\ DwarfIdle
  /\ MachOIdle
  /\ CovmapIdle
  /\ DriverIdle
  /\ ReaderIdle

\* One filename, directory or string is patched under the map.
PrefixMapPatch ==
  /\ pc = "patch"
  /\ \E value \in Strings :
       call' = [op |-> "patch_string", value |-> value,
                result |-> PatchStringWithMap(value, prefix_map)]
  /\ UNCHANGED <<patchVars, fileVars, ctlVars, dwarfVars, covmapVars,
                 driverVars, readerVars, load_commands, before, targets>>

NextPrefixMap == PrefixMapPatch

SpecPrefixMap == InitPrefixMap /\ [][NextPrefixMap]_vars

(***************************************************************************)
(* A DWARFBufferReader over a buffer, under a client that calls its        *)
(* operations in any order.                                                *)
(***************************************************************************)
\* Longest buffer made of every combination of bytes.
MaxBufferLen == 3

\* Buffers that hold longer values: a DWORD, a QWORD of either sign of
\* representative, and the ULEB128 encodings of 2^28, 2^32, 2^35 and
\* 2^64 - 1.
SampleBuffers ==
  {<<1, 2, 3, 4>>,
   <<1, 2, 0, 0, 0, 0, 0, 0>>,
   <<244, 255, 255, 255, 255, 255, 255, 255>>,
   <<128, 128, 128, 128, 1>>,
   <<128, 128, 128, 128, 16>>,
   <<128, 128, 128, 128, 128, 1>>,
   <<255, 255, 255, 255, 255, 255, 255, 255, 255, 1>>}

ReaderBuffers == SeqsOf({0, 1, 128}, 0, MaxBufferLen) \cup SampleBuffers

\* The n bytes at pos are short of n or hold a value the checker's integers
\* represent.
Representable(buf, pos, n) ==
  IF bytes_remaining(buf, pos) < n \/ n <= 2 THEN TRUE
  ELSE IF n = 4 THEN buf[pos + 4] < 128
  ELSE IF buf[pos + 4] < 128
       THEN Bytes(buf, pos + 4, 4) = <<0, 0, 0, 0>>
       ELSE Bytes(buf, pos + 4, 4) = <<255, 255, 255, 255>>

InitReader ==
  /\ buffer \in ReaderBuffers
  /\ read_position = 0
  /\ swap_byte_ordering \in BOOLEAN
  /\ patch_actions = <<>>
  /\ old_prefix = <<>>
  /\ new_prefix = <<>>
  /\ passes = <<>>
  /\ run = 1
  /\ prefix_map = <<>>
  /\ file = <<>>
  /\ content = [a \in Archs |-> NoSlice]
  /\ original = [file |-> file, content |-> content]
  /\ cur = "content_64"
  /\ pc = "reader"
  /\ retval = ERR_OK
  /\ DwarfIdle
  /\ MachOIdle
  /\ CovmapIdle
  /\ DriverIdle

\* What a reader call leaves: the call with the position it started at and
\* its outcome, and the new read position.
ReaderCalled(op, r) ==
  /\ call' = [op |-> op, start |-> read_position, ok |-> r.ok,
              value |-> r.value]
  /\ read_position' = r.pos
  /\ UNCHANGED <<patchVars, fileVars, ctlVars, dwarfVars, covmapVars,
                 driverVars, buffer, swap_byte_ordering, patch_actions,
                 load_commands, before, targets>>

ReaderReadByte ==
  /\ pc = "reader"
  /\ ReaderCalled("ReadByte", ReadByte(buffer, read_position))

ReaderReadWORD ==
  /\ pc = "reader"
  /\ ReaderCalled("ReadWORD", ReadWORD(buffer, read_position))

ReaderReadDWORD ==
  /\ pc = "reader"
  /\ Representable(buffer, read_position, 4)
  /\ ReaderCalled("ReadDWORD", ReadDWORD(buffer, read_position))

ReaderReadQWORD ==
  /\ pc = "reader"
  /\ Representable(buffer, read_position, 8)
  /\ ReaderCalled("ReadQWORD", ReadQWORD(buffer, read_position))

ReaderReadULEB128 ==
  /\ pc = "reader"
  /\ \E overshift \in Overshift :
       ReaderCalled("ReadULEB128",
                    ReadULEB128Loop(buffer, read_position, Zero64, 0, overshift))

ReaderReadCharacters ==
  /\ pc = "reader"
  /\ \E length \in 0..MaxBufferLen :
       ReaderCalled("ReadCharacters",
                    ReadCharacters(buffer, read_position, length))

ReaderReadASCIIZ ==
  /\ pc = "reader"
  /\ ReaderCalled("ReadASCIIZ", ReadASCIIZ(buffer, read_position))

\* SeekToOffset and SkipForward return nothing.
ReaderSeekToOffset ==
  /\ pc = "reader"
  /\ \E offset \in 0..(Len(buffer) + 1) :
       ReaderCalled("SeekToOffset",
                    [ok |-> TRUE, value |-> offset, pos |-> SeekToOffset(offset)])

\* The client skips from inside the buffer only, which keeps the positions
\* bounded.
ReaderSkipForward ==
  /\ pc = "reader"
  /\ read_position <= Len(buffer)
  /\ \E bytes \in 1..MaxBufferLen :
       ReaderCalled("SkipForward",
                    [ok |-> TRUE, value |-> bytes,
                     pos |-> SkipForward(read_position, bytes)])

NextReader ==
  \/ ReaderReadByte
  \/ ReaderReadWORD
  \/ ReaderReadDWORD
  \/ ReaderReadQWORD
  \/ ReaderReadULEB128
  \/ ReaderReadCharacters
  \/ ReaderReadASCIIZ
  \/ ReaderSeekToOffset
  \/ ReaderSkipForward

SpecReader == InitReader /\ [][NextReader]_vars

(***************************************************************************)
(* DWARFStringPatcher::PatchLineInfoSection taken one compilation unit at  *)
(* a time: the passes of ProcessLineInfoData's loop, then the patches.     *)
(***************************************************************************)
\* Most LineInfoPatch entries the loop is followed to.
MaxPatches == 3

\* The part of a version 2 line-number unit behind its length, with length
\* fields of width bytes: include_directories dirs, an empty file table and
\* a one-byte program.
LineInfoBody(width, dirs) ==
  LET directories == Concat([i \in 1..Len(dirs) |-> dirs[i] \o <<0>>]) \o <<0>>
      header == <<1, 1, 1, 1, 1>> \o directories \o <<0>>
  IN <<2, 0>> \o ToLittleEndian(Len(header), width) \o header \o <<7>>

\* A unit of the 32-bit format (width 4) or of the 64-bit format (width 8,
\* behind the 0xffffffff marker) that gives unit_length as its length.
LineInfoUnitOf(width, dirs, unit_length) ==
  (IF width = 8 THEN <<255, 255, 255, 255>> ELSE <<>>)
    \o ToLittleEndian(unit_length, width) \o LineInfoBody(width, dirs)

\* A unit whose length is that of its body.
SoundLineInfoUnit(width, dirs) ==
  LineInfoUnitOf(width, dirs, Len(LineInfoBody(width, dirs)))

\* The __debug_line sections tried: one sound unit with up to two
\* directories, two sound units with one directory each, and a unit of the
\* 64-bit format whose length is 2^64 - 12, alone or behind a sound unit.
LineInfoSections ==
  {SoundLineInfoUnit(width, dirs) :
     width \in {4, 8}, dirs \in SeqsOf(Strings, 1, 2)}
  \cup {SoundLineInfoUnit(w1, <<d1>>) \o SoundLineInfoUnit(w2, <<d2>>) :
          w1 \in {4, 8}, w2 \in {4, 8}, d1 \in Strings, d2 \in Strings}
  \cup {LineInfoUnitOf(8, <<d>>, -12) : d \in Strings}
  \cup {SoundLineInfoUnit(4, <<d1>>) \o LineInfoUnitOf(8, <<d2>>, -12) :
          d1 \in Strings, d2 \in Strings}

InitLine ==
  /\ old_prefix \in Prefixes
  /\ new_prefix \in Prefixes
  /\ \E data \in LineInfoSections :
       LET segs == <<Segment(kSegment, <<Section(kLineInfoSection, data)>>)>>
       IN /\ file = SliceBytes(segs, <<>>)
          /\ content = ThinContent(MakeSlice(segs, <<>>, 0))
          /\ buffer = data
  /\ original = [file |-> file, content |-> content]
  /\ cur = "content_64"
  /\ read_position = 0
  /\ swap_byte_ordering = FALSE
  /\ patch_actions = <<>>
  /\ pc = "units"
  /\ retval = ERR_OK
  /\ passes = <<>>
  /\ run = 1
  /\ prefix_map = <<>>
  /\ DwarfIdle
  /\ MachOIdle
  /\ CovmapIdle
  /\ DriverIdle

\* One pass of the while (reader.bytes_remaining() > 0) loop.
LineUnit ==
  /\ pc = "units"
  /\ bytes_remaining(buffer, read_position) > 0
  /\ Len(patch_actions) < MaxPatches
  /\ \E unit \in {ProcessLineInfoUnit(buffer, read_position, old_prefix,
                                       new_prefix)} :
       /\ call' = [op |-> "ProcessLineInfoUnit", start |-> read_position,
                   ok |-> unit.ok]
       /\ IF ~unit.ok
          THEN /\ retval' = ERR_INVALID_FILE
               /\ pc' = "done"
               /\ UNCHANGED <<read_position, patch_actions>>
          ELSE /\ read_position' = SeekToOffset(unit.end_offset)
               /\ patch_actions' = IF unit.modified
                                   THEN Append(patch_actions, unit.action)
                                   ELSE patch_actions
               /\ UNCHANGED ctlVars
  /\ UNCHANGED <<patchVars, fileVars, dwarfVars, covmapVars, driverVars,
                 buffer, swap_byte_ordering, load_commands, before, targets>>

\* The loop has ended: ProcessLineInfoData returns and PatchLineInfoSection
\* applies the patches.
LineApply ==
  /\ pc = "units"
  /\ bytes_remaining(buffer, read_position) = 0
  /\ \E r \in {ApplyLineInfoActions(
                 content[cur], file, buffer, Len(buffer),
                 [retval |-> ERR_OK, patch_actions |-> patch_actions,
                  patched_section_size_increase |->
                    SumSeq([i \in 1..Len(patch_actions) |->
                              patch_actions[i].new_string_table_length
                                - patch_actions[i].string_table_length])])} :
       /\ content' = [content EXCEPT ![cur] = r.slice]
       /\ file' = r.bytes
       /\ retval' = r.retval
       /\ targets' = Handed(kSegment, r.written)
  /\ call' = [op |-> "ApplyLineInfoActions"]
  /\ pc' = "done"
  /\ UNCHANGED <<patchVars, driverVars, readerVars, covmapVars, dwarfVars,
                 load_commands, before, original, cur>>

NextLine ==
  \/ LineUnit
  \/ LineApply

SpecLine == InitLine /\ [][NextLine]_vars

(***************************************************************************)
(* DWARFStringPatcher::Patch on __debug_info sections of several layouts:  *)
(* units of the 32-bit and of the 64-bit format, units whose first length  *)
(* word has bit 31 set without being ff ff ff ff, and units with a string  *)
(* reference that points into the middle of a string.                      *)
(***************************************************************************)
\* The first length word of a 64-bit unit, and a word that has bit 31 set
\* and is not that marker.
Dwarf64Marker == <<255, 255, 255, 255>>

Bit31Word == <<0, 0, 0, 128>>

\* A version 4 unit with one entry for each of offsets.  With width 8 the
\* unit is laid out in the 64-bit format behind the word first_length: an
\* 8 byte unit length, an 8 byte abbreviation offset and 8 byte strings
\* offsets.
InfoUnitOf(first_length, width, offsets) ==
  LET entries == Concat([i \in 1..Len(offsets) |->
                           <<1>> \o ToLittleEndian(offsets[i], width) \o <<5>>])
      body == <<4, 0>> \o ToLittleEndian(0, width) \o <<8>> \o entries
  IN first_length \o ToLittleEndian(Len(body), width) \o body

\* The layouts tried: the word before the unit length and the width.
InfoLayouts ==
  {[first_length |-> <<>>, width |-> 4],
   [first_length |-> Dwarf64Marker, width |-> 8],
   [first_length |-> Bit31Word, width |-> 8]}

\* The string offsets an __debug_info section refers to: every string of
\* the table, and with stray set a last reference to offset 1, where no
\* string starts.
InfoOffsets(table, stray) ==
  SortedOffsets(StringOffsets(table)) \o (IF stray THEN <<1>> ELSE <<>>)

\* The directory of the __debug_line unit of these files.
InfoDirectory == <<98>>

InfoSegment(table, layout, stray) ==
  Segment(kSegment,
          <<Section(kLineInfoSection, LineInfoUnit(<<InfoDirectory>>)),
            Section(kStringSection, StringSectionData(table)),
            Section(kAbbreviationSection, AbbrevSectionData),
            Section(kInfoSection,
                    InfoUnitOf(layout.first_length, layout.width,
                               InfoOffsets(table, stray)))>>)

InitInfo ==
  /\ old_prefix \in Prefixes
  /\ new_prefix \in Prefixes
  /\ \E table \in StringTables, layout \in InfoLayouts, stray \in BOOLEAN :
       LET segs == <<InfoSegment(table, layout, stray)>>
       IN /\ file = SliceBytes(segs, <<>>)
          /\ content = ThinContent(MakeSlice(segs, <<>>, 0))
  /\ original = [file |-> file, content |-> content]
  /\ cur = "content_64"
  /\ pc = "line"
  /\ retval = ERR_OK
  /\ passes = <<>>
  /\ run = 1
  /\ prefix_map = <<>>
  /\ DwarfIdle
  /\ MachOIdle
  /\ CovmapIdle
  /\ DriverIdle
  /\ ReaderIdle

SpecInfo == InitInfo /\ [][NextDwarf]_vars

(***************************************************************************)
(* Observations used by the properties.                                    *)
(***************************************************************************)
Range(s) == {s[i] : i \in 1..Len(s)}

IsPrefix(s, t) == Len(s) <= Len(t) /\ SubSeq(t, 1, Len(s)) = s

\* The image under patch, and the same image as it was read.
Image == content[cur]

OriginalImage == original.content[cur]

Deferred(segment_name, section_name) ==
  <<segment_name, section_name>> \in DOMAIN Image.deferred_write_actions

\* The bytes a section had when the file was read.
OriginalSection(segment_name, section_name) ==
  ReadSectionData(OriginalImage, original.file, segment_name, section_name, 0).data

\* The bytes a section has after the patch: those queued for it, or else
\* those in the file.
PatchedSection(segment_name, section_name) ==
  IF Deferred(segment_name, section_name)
  THEN Image.deferred_write_actions[<<segment_name, section_name>>].data
  ELSE ReadSectionData(Image, file, segment_name, section_name, 0).data

\* The string at offset o of a string section: up to the next NUL or to the
\* section's end.
StringAt(section, o) == CStringAt(section \o <<0>>, o)

\* The offsets at which the strings of a string section start.
StringStarts(section) ==
  {o \in 0..Len(section) : o = 0 \/ section[o] = 0}

\* The value of the DW_FORM_strp field of the i-th entry of the unit that
\* InfoSectionData lays out.
StrpValue(info, i) == LittleEndian(info, 12 + 6 * (i - 1), 4)

StringSectionGrew ==
  /\ Deferred(kSegment, kStringSection)
  /\ LET w == Image.deferred_write_actions[<<kSegment, kStringSection>>]
     IN w.data_size > w.existing_data_size

\* C2: a deferred write of __debug_line counts as success: Patch goes on to
\* __debug_str and never returns ERR_WRITE_DEFERRED (21).
C2_DeferredLineInfoContinues ==
  (pc = "done" /\ Deferred(kSegment, kLineInfoSection))
    => (retval # ERR_WRITE_DEFERRED /\ kStringSection \in Range(sections_read))

\* C3: the sections are handled in the order __debug_line, __debug_str,
\* __debug_abbrev, __debug_info; the last two only after __debug_str was
\* rewritten to a larger size, and __debug_info only with a relocation map
\* that covers every string of the original table.
C3_SectionOrder ==
  /\ IsPrefix(sections_read, <<kLineInfoSection, kStringSection,
                               kAbbreviationSection, kInfoSection>>)
  /\ (kAbbreviationSection \in Range(sections_read)) => StringSectionGrew
  /\ (kInfoSection \in Range(sections_read))
       => /\ StringSectionGrew
          /\ DOMAIN string_relocation_table
               = StringStarts(OriginalSection(kSegment, kStringSection))

C3_Witness ==
  /\ pc = "done"
  /\ retval = ERR_OK
  /\ sections_read = <<kLineInfoSection, kStringSection,
                       kAbbreviationSection, kInfoSection>>
  /\ \E o \in DOMAIN string_relocation_table : string_relocation_table[o] # o

\* C7: after a DWARF patch every DW_FORM_strp attribute of __debug_info
\* whose offset o pointed to a string with the old prefix holds an offset o'
\* with the string at o' of the new __debug_str equal to replace(string at o
\* of the old __debug_str).
C7_StrpRelocation ==
  (pc = "done" /\ retval = ERR_OK /\ kInfoSection \in Range(sections_read))
    => LET info_old == OriginalSection(kSegment, kInfoSection)
           info_new == PatchedSection(kSegment, kInfoSection)
           str_old == OriginalSection(kSegment, kStringSection)
           str_new == PatchedSection(kSegment, kStringSection)
       IN \A i \in 1..Cardinality(StringStarts(str_old)) :
            LET s == StringAt(str_old, StrpValue(info_old, i))
            IN StartsWith(s, old_prefix)
                 => StringAt(str_new, StrpValue(info_new, i))
                      = Replace(s, old_prefix, new_prefix)

(***************************************************************************)
(* Properties of the container.                                            *)
(***************************************************************************)
\* The <<i, j>> with section j of segment i named by the path, in an image.
SectionsNamed(slice, segment_name, section_name) ==
  UNION {{<<i, j>> : j \in {k \in 1..Len(slice.segments[i].sections) :
                              /\ slice.segments[i].segname = segment_name
                              /\ slice.segments[i].sections[k].sectname
                                   = section_name}} :
         i \in 1..Len(slice.segments)}

DirtyBefore ==
  {a \in Archs : /\ before.content[a] # NoSlice
                 /\ has_deferred_writes(before.content[a])}

NothingWritten ==
  /\ call.fwrites = <<>>
  /\ file = before.file
  /\ load_commands = before.load_commands

\* The one write of the serialized image a at its content_offset.
SerializedWritten(a) ==
  LET s == SerializeWithDeferredWrites(before.content[a], before.file,
                                       before.load_commands[a])
  IN /\ call.fwrites = <<[offset |-> before.content[a].content_offset,
                          data |-> s.data]>>
     /\ file = FileWrite(before.file, before.content[a].content_offset, s.data)

Shrinks(slice) ==
  \E q \in DOMAIN slice.deferred_write_actions :
    slice.deferred_write_actions[q].data_size
      < slice.deferred_write_actions[q].existing_data_size

C6_UntargetedSectionsKept ==
  (call.op = "commit" /\ retval = ERR_OK) =>
    \A a \in Archs :
      original.content[a] # NoSlice =>
        \A i \in 1..Len(original.content[a].segments) :
          \A j \in 1..Len(original.content[a].segments[i].sections) :
            LET was == original.content[a].segments[i].sections[j]
                now == load_commands[a][i].sections[j]
                offset == original.content[a].content_offset
            IN <<a, original.content[a].segments[i].segname, was.sectname>>
                 \notin Range(targets)
               => Bytes(file, offset + now.offset, now.size)
                    = Bytes(original.file, offset + was.offset, was.size)

(***************************************************************************)
(* Properties of the coverage map patcher.                                 *)
(***************************************************************************)
\* C8: whenever Serialize(v, originalSize) returns true for a rewritten
\* group whose natural size is not larger than its original size, the
\* bytes it appended are exactly originalSize many.
C8_SerializeKeepsSize ==
  (call.op = "serialize" /\ call.ok /\ call.group.size <= call.minimum_size)
    => Len(call.v) = call.minimum_size

(***************************************************************************)
(* Properties of the prefix replacement as a whole.                        *)
(***************************************************************************)
\* C9: with a prefix mapped to itself, patching is a no-op: every byte of
\* the file stays as it was and no section is handed to WriteSectionData.
C9_NoOpPrefixMap ==
  old_prefix = new_prefix => file = original.file /\ targets = <<>>

\* Where the include directories start in the unit LineInfoUnit lays out:
\* behind the unit length, the version, the header length and five bytes.
DirectoryTableOffset == 4 + 2 + 4 + 5

\* The string payloads of an image: the filenames of its coverage map, its
\* include directories and the strings of __debug_str.
Filenames(slice, bytes) ==
  Parse(ReadSectionData(slice, bytes, "__DATA", "__llvm_covmap", 0).data)
    .filename_groups[1].filenames

Directories(slice, bytes) ==
  ReadDirectoryTable(
    ReadSectionData(slice, bytes, kSegment, kLineInfoSection, 0).data,
    DirectoryTableOffset, <<>>, <<>>, [table |-> <<>>, modified |-> FALSE]).table

\* The payloads the file had when read, and of an image after patching:
\* as many filenames and directories as there were (those behind them are
\* fillers), and the strings at the offsets where strings started.
OriginalPayloads ==
  [filenames |-> Filenames(OriginalImage, original.file),
   directories |-> Directories(OriginalImage, original.file),
   strings |-> [o \in StringStarts(OriginalSection(kSegment, kStringSection))
                  |-> StringAt(OriginalSection(kSegment, kStringSection), o)]]

Payloads(slice, bytes) ==
  [filenames |-> SubSeq(Filenames(slice, bytes), 1,
                        Len(OriginalPayloads.filenames)),
   directories |-> SubSeq(Directories(slice, bytes), 1,
                          Len(OriginalPayloads.directories)),
   strings |-> [o \in StringStarts(OriginalSection(kSegment, kStringSection))
                  |-> StringAt(ReadSectionData(slice, bytes, kSegment,
                                               kStringSection, 0).data, o)]]

PayloadStrings ==
  Range(OriginalPayloads.filenames) \cup Range(OriginalPayloads.directories)
  \cup {OriginalPayloads.strings[o] : o \in DOMAIN OriginalPayloads.strings}

\* Two runs are over, both successful and with every write in the file.
ComposeDone ==
  /\ Len(passes) = 2
  /\ run = 2
  /\ pc = "done"
  /\ retval = ERR_OK
  /\ ~has_deferred_writes(Image)

\* One run on the file as read, from the first old to the last new prefix.
PatchedOnce(junk) ==
  LET dwarf(c) ==
        IF c.retval # ERR_OK THEN c
        ELSE DWARFStringPatcherPatch(c.slice, c.bytes, passes[1][1],
                                     passes[2][2], junk)
  IN dwarf(CovmapPatcherPatch(OriginalImage, original.file, passes[1][1],
                              passes[2][2]))

\* The payloads after the two runs are those after the one run, when that
\* one also succeeds with every write in the file.
SamePayloadsAsOnce ==
  \A junk \in Indeterminate :
    \A once \in {PatchedOnce(junk)} :
      (once.retval = ERR_OK /\ ~has_deferred_writes(once.slice))
        => Payloads(Image, file) = Payloads(once.slice, once.bytes)

\* No string of the file starts with the first run's new prefix unless it
\* starts with its old prefix.
NewOnlyWithOld ==
  \A s \in PayloadStrings :
    StartsWith(s, passes[1][2]) => StartsWith(s, passes[1][1])

HasDeferredWrites ==
  \E a \in Archs :
    content[a] # NoSlice /\ has_deferred_writes(content[a])

\* main is past the body of its loop for a file it patched successfully.
LeftPatchedFile == pc \in {"read", "exit"} /\ retval = 0 /\ position > 1

\* C1: for each successfully patched file whose container has a deferred
\* write, the driver has called PerformDeferredWrites on the container
\* before it moves on to the next file or exits with code 0.
C1_DeferredWritesCommitted ==
  (LeftPatchedFile /\ HasDeferredWrites) => call.op = "commit"

(***************************************************************************)
(* Properties of missing sections.                                         *)
(***************************************************************************)
\* The section the DWARF patcher read last is not in the image.
LastSectionMissing ==
  /\ sections_read # <<>>
  /\ ~ReadSectionData(Image, file, kSegment,
                      sections_read[Len(sections_read)], 0).found

\* C11: a missing section is never an error: the stage of the DWARF patcher
\* that finds its section missing returns Ok, also after __debug_str has
\* been rewritten to a larger size.
C11_MissingSectionIsOk == LastSectionMissing => retval = ERR_OK

(***************************************************************************)
(* Properties of the prefix map.                                           *)
(***************************************************************************)
\* The map in another iteration order.
Reordered(m) ==
  {[i \in 1..Len(m) |-> m[p[i]]] :
     p \in {q \in [1..Len(m) -> 1..Len(m)] :
              \A i, j \in 1..Len(m) : i # j => q[i] # q[j]}}

\* The entries whose key is a prefix of value.
MatchingEntries(value) ==
  {i \in 1..Len(prefix_map) : StartsWith(value, prefix_map[i][1])}

SerializePadding ==
  IF call.group.size < call.minimum_size
  THEN call.minimum_size - call.group.size
  ELSE 0

CountGrowth ==
  EncodedLEB128Size(Len(call.group.filenames)
                    + ((SerializePadding + 127) \div 128))
  - EncodedLEB128Size(Len(call.group.filenames))

CountCannotFit ==
  call.op = "serialize" /\ SerializePadding >= 1
  /\ CountGrowth >= SerializePadding

\* C13: when the fillers lengthen the filename count by D bytes and
\* D >= padding, CovmapPatcher::Patch returns InvalidFile, WriteSectionData
\* is not called, no deferred write is recorded and no byte of the file is
\* changed, whatever earlier groups were rewritten in memory.
C13_CountGrowthFailsCleanly ==
  CountCannotFit =>
    /\ pc = "covmap_done"
    /\ retval = ERR_INVALID_FILE
    /\ ~call.ok
    /\ targets = <<>>
    /\ ~has_deferred_writes(Image)
    /\ file = original.file

\* The count cannot fit after an earlier group of the section was rewritten.
C13_Witness ==
  /\ CountCannotFit
  /\ replacement_groups # <<>>
  /\ retval = ERR_INVALID_FILE
  /\ pc = "covmap_done"

(***************************************************************************)
(* Properties of the serialized image.                                     *)
(***************************************************************************)
\* The one image the commit serialized.
Committed == CHOOSE a \in DirtyBefore : TRUE

\* A commit that serialized one image and wrote it.
CommitDone ==
  call.op = "commit" /\ retval = ERR_OK /\ Cardinality(DirtyBefore) = 1

\* By how much the deferred writes grow section j of segment i of the
\* committed image, and segment i as a whole.
SectionGrowth(i, j) ==
  LET slice == before.content[Committed]
      path == <<slice.segments[i].segname,
                slice.segments[i].sections[j].sectname>>
  IN IF path \in DOMAIN slice.deferred_write_actions
     THEN slice.deferred_write_actions[path].data_size
          - slice.deferred_write_actions[path].existing_data_size
     ELSE 0

SegmentGrowth(i) ==
  SumSeq([j \in 1..Len(before.content[Committed].segments[i].sections) |->
            SectionGrowth(i, j)])

\* C14: after serialize applied growing deferred writes, every segment
\* command has fileoff = original fileoff + the growth of the segments
\* before it and filesize = original filesize + its own growth, and a
\* segment before all modified segments keeps its data bytes.
C14_SegmentCommands ==
  CommitDone =>
    \A i \in 1..Len(before.load_commands[Committed]) :
      LET was == before.load_commands[Committed][i]
          now == load_commands[Committed][i]
          offset == before.content[Committed].content_offset
      IN /\ now.fileoff
              = was.fileoff + SumSeq([k \in 1..(i - 1) |-> SegmentGrowth(k)])
         /\ now.filesize = was.filesize + SegmentGrowth(i)
         /\ (\A k \in 1..i : SegmentGrowth(k) = 0)
              => Bytes(file, offset + now.fileoff, now.filesize)
                   = Bytes(before.file, offset + was.fileoff, was.filesize)

\* Both segments grew, and the second one moved up.
C14_Witness ==
  /\ CommitDone
  /\ SegmentGrowth(1) > 0
  /\ SegmentGrowth(2) > 0
  /\ load_commands[Committed][2].fileoff
       > before.load_commands[Committed][2].fileoff

\* C15: within a segment that has replaced sections, each section's offset
\* is increased by the sum of the deltas of the replaced sections before it
\* in the table, a replaced section's new bytes are at its updated offset,
\* the sections keep their order, and the gap between two adjacent
\* unmodified sections is unchanged.
C15_SectionOffsets ==
  CommitDone =>
    \A i \in 1..Len(before.load_commands[Committed]) :
      SegmentGrowth(i) > 0 =>
        LET slice == before.content[Committed]
            was == before.load_commands[Committed][i].sections
            now == load_commands[Committed][i].sections
            path(j) == <<slice.segments[i].segname, was[j].sectname>>
        IN /\ \A j \in 1..Len(was) :
                /\ now[j].offset
                     = was[j].offset
                       + SumSeq([k \in 1..(j - 1) |-> SectionGrowth(i, k)])
                /\ path(j) \in DOMAIN slice.deferred_write_actions
                     => Bytes(file, slice.content_offset + now[j].offset,
                              slice.deferred_write_actions[path(j)].data_size)
                          = slice.deferred_write_actions[path(j)].data
           /\ \A j \in 1..(Len(was) - 1) :
                /\ now[j].offset < now[j + 1].offset
                /\ (SectionGrowth(i, j) = 0 /\ SectionGrowth(i, j + 1) = 0)
                     => now[j + 1].offset - now[j].offset
                          = was[j + 1].offset - was[j].offset

\* C16: when one image of a fat file grew and was committed, the bytes
\* that followed the image in the file are in the output, shifted up by the
\* image's growth.
C16_TrailingContainerBytesKept ==
  CommitDone =>
    LET slice == before.content[Committed]
        image_end == slice.content_offset
                     + Len(LoadBuffer(slice, before.file))
        growth == SumSeq([i \in 1..Len(slice.segments) |-> SegmentGrowth(i)])
    IN /\ Len(file) = Len(before.file) + growth
       /\ Bytes(file, image_end + growth, Len(before.file) - image_end)
            = Bytes(before.file, image_end, Len(before.file) - image_end)

\* C17: serialize drains the map of deferred writes: after a commit that
\* returned Ok no image has a deferred write, and a second commit on the
\* container writes nothing to the file.
C17_CommitDrainsDeferredWrites ==
  (call.op = "commit" /\ retval = ERR_OK) =>
    /\ \A a \in Archs :
         content[a] # NoSlice => ~has_deferred_writes(content[a])
    /\ PerformDeferredWrites(content, file, load_commands).fwrites = <<>>

(***************************************************************************)
(* Properties of the filler filenames.                                     *)
(***************************************************************************)
\* C18: for every padding >= 1 for which Serialize returns true, the
\* filename count at the head of the group is the number of filenames plus
\* ceil(padding / 128) fillers, and that many length-prefixed strings
\* follow it: reading the serialized group back consumes exactly its bytes.
C18_FillerCount ==
  (call.op = "serialize" /\ call.ok /\ SerializePadding >= 1) =>
    \E parsed \in {ReadFilenameGroup(call.v, 0)} :
      /\ parsed.retval = ERR_OK
      /\ parsed.pos = Len(call.v)
      /\ Len(parsed.g.filenames)
           = Len(call.group.filenames) + ((SerializePadding + 127) \div 128)

(***************************************************************************)
(* Properties of the __debug_str patch.                                    *)
(***************************************************************************)
\* Patch has been through an existing __debug_str section.
StringSectionPatched ==
  /\ kStringSection \in Range(sections_read)
  /\ ReadSectionData(OriginalImage, original.file, kSegment, kStringSection,
                     0).found

\* C19: when the new prefix is not longer than the old one, __debug_str is
\* patched in place: the section keeps its size, the write returns Ok and
\* leaves no deferred write, and at every offset where a string started the
\* patched section holds the replacement of that string.
C19_StringSectionInPlace ==
  (StringSectionPatched /\ Len(new_prefix) <= Len(old_prefix)) =>
    /\ retval = ERR_OK
    /\ ~Deferred(kSegment, kStringSection)
    /\ Len(PatchedSection(kSegment, kStringSection))
         = Len(OriginalSection(kSegment, kStringSection))
    /\ \A o \in StringStarts(OriginalSection(kSegment, kStringSection)) :
         StringAt(PatchedSection(kSegment, kStringSection), o)
           = Replace(StringAt(OriginalSection(kSegment, kStringSection), o),
                     old_prefix, new_prefix)

\* Two strings, the first of them shortened, the second one left alone.
C19_Witness ==
  /\ StringSectionPatched
  /\ Len(new_prefix) < Len(old_prefix)
  /\ <<cur, kSegment, kStringSection>> \in Range(targets)
  /\ \E o \in StringStarts(OriginalSection(kSegment, kStringSection)) :
       /\ o > 0
       /\ StartsWith(StringAt(OriginalSection(kSegment, kStringSection), 0),
                     old_prefix)
       /\ StringAt(OriginalSection(kSegment, kStringSection), o) # <<>>
       /\ ~StartsWith(StringAt(OriginalSection(kSegment, kStringSection), o),
                      old_prefix)

\* The string starts of the original __debug_str with the strings there.
OriginalStrings ==
  [o \in StringStarts(OriginalSection(kSegment, kStringSection)) |->
     StringAt(OriginalSection(kSegment, kStringSection), o)]

\* The offset the claim gives the string at o in the rewritten section.
RelocatedOffset(o) ==
  o + Cardinality({q \in DOMAIN OriginalStrings :
                     q < o /\ StartsWith(OriginalStrings[q], old_prefix)})
      * (Len(new_prefix) - Len(old_prefix))

\* The relocation map takes every string start o to RelocatedOffset(o).
RelocationMapAsClaimed ==
  /\ DOMAIN string_relocation_table = DOMAIN OriginalStrings
  /\ \A o \in DOMAIN OriginalStrings :
       string_relocation_table[o] = RelocatedOffset(o)

\* C20: in the growing case RewriteStringSection gives a relocation map
\* with o -> o' = o + (prefix-matched strings before o) * (|new| - |old|)
\* for every string start o, and the new buffer holds at o' the replacement
\* of the string at o followed by a NUL byte, for every string but the last.
C20_RewrittenStringSection ==
  (StringSectionPatched /\ StringSectionGrew) =>
    /\ RelocationMapAsClaimed
    /\ \A o \in DOMAIN OriginalStrings :
         LET new_data == PatchedSection(kSegment, kStringSection)
             entry == Replace(OriginalStrings[o], old_prefix, new_prefix)
         IN /\ RelocatedOffset(o) + Len(entry) <= Len(new_data)
            /\ Bytes(new_data, RelocatedOffset(o), Len(entry)) = entry
            /\ (\E q \in DOMAIN OriginalStrings : q > o)
                 => new_data[RelocatedOffset(o) + Len(entry) + 1] = 0

(***************************************************************************)
(* Properties of the DWARFBufferReader.                                    *)
(***************************************************************************)
\* C25: after any sequence of reader operations (the reads, SeekToOffset,
\* SkipForward) the read position never exceeds the buffer's length.
C25_CursorInsideBuffer == read_position <= Len(buffer)

RECURSIVE EncodingLength(_, _)
\* The number of bytes of the ULEB128 encoding at pos, up to and including
\* the first byte with the high bit clear; 0 when the buffer ends before it.
EncodingLength(buf, pos) ==
  IF pos >= Len(buf) THEN 0
  ELSE IF buf[pos + 1] < 128 THEN 1
  ELSE LET rest == EncodingLength(buf, pos + 1)
       IN IF rest = 0 THEN 0 ELSE 1 + rest

\* Bit k of the sum of (b_i & 0x7F) * 2^(7 * i) over the count bytes at pos:
\* the 7-bit groups do not overlap.
GroupBit(buf, pos, count, k) ==
  IF k \div 7 >= count THEN 0
  ELSE (buf[pos + 1 + (k \div 7)] \div (2 ^ (k % 7))) % 2

\* That sum as the eight bytes of a uint64_t.
GroupSum(buf, pos, count) ==
  [j \in 1..8 |->
     SumSeq([t \in 1..8 |->
               GroupBit(buf, pos, count, 8 * (j - 1) + t - 1) * (2 ^ (t - 1))])]

\* C26: ReadULEB128 fails exactly when the buffer ends before a byte with
\* the high bit clear, and otherwise returns the sum of the 7-bit groups of
\* the encoded bytes (up to 10 of them) as a 64-bit value and stops behind
\* the last of them.
C26_ULEB128Value ==
  call.op = "ReadULEB128" =>
    LET count == EncodingLength(buffer, call.start)
    IN /\ call.ok <=> count > 0
       /\ call.ok =>
            /\ read_position = call.start + count
            /\ count <= 10 => call.value = GroupSum(buffer, call.start, count)

\* The bytes of s in reverse order.
Reversed(s) == [i \in 1..Len(s) |-> s[Len(s) + 1 - i]]

\* The width of the value a fixed-width read returns.
WidthOf(op) ==
  CASE op = "ReadWORD" -> 2 [] op = "ReadDWORD" -> 4 [] op = "ReadQWORD" -> 8

\* C27: ReadWORD, ReadDWORD and ReadQWORD return the bytes at the cursor as
\* one value, byte-reversed when swap_byte_ordering_ is set and as they are
\* otherwise, and advance the cursor by the width read.
C27_FixedWidthValue ==
  (call.op \in {"ReadWORD", "ReadDWORD", "ReadQWORD"} /\ call.ok) =>
    LET width == WidthOf(call.op)
        read == Bytes(buffer, call.start, width)
    IN /\ read_position = call.start + width
       /\ ToLittleEndian(call.value, width) =
            IF swap_byte_ordering THEN Reversed(read) ELSE read

(***************************************************************************)
(* Properties of the __debug_line units.                                   *)
(***************************************************************************)
\* C28: every pass of ProcessLineInfoData's per-unit loop that reads its
\* unit leaves the reader at an offset strictly greater than the offset at
\* which the unit started, whatever the unit gives as its length.
C28_UnitLoopAdvances ==
  (call.op = "ProcessLineInfoUnit" /\ call.ok) => read_position > call.start

RECURSIVE DirectoryEntries(_, _)
\* The entries of the directory table at offset off of a section: the
\* strings up to the empty one.
DirectoryEntries(section, off) ==
  LET entry == StringAt(section, off)
  IN IF entry = <<>> THEN <<>>
     ELSE <<entry>> \o DirectoryEntries(section, off + Len(entry) + 1)

\* The length of a directory table, terminator included.
TableLength(entries) ==
  1 + SumSeq([i \in 1..Len(entries) |-> Len(entries[i]) + 1])

\* The loop has ended and the patches of at least one unit were applied.
LineInfoApplied ==
  /\ pc = "done"
  /\ call.op = "ApplyLineInfoActions"
  /\ patch_actions # <<>>
  /\ retval \in {ERR_OK, ERR_WRITE_DEFERRED}

\* The directories of the i-th modified unit as they were.
OldDirectories(i) ==
  DirectoryEntries(buffer, patch_actions[i].string_table_start_offset)

\* The same directories with the prefix replaced.
NewDirectories(i) ==
  [k \in 1..Len(OldDirectories(i)) |->
     Replace(OldDirectories(i)[k], old_prefix, new_prefix)]

\* The table length C23 gives the i-th modified unit.
InstalledLength(i) ==
  LET old == TableLength(OldDirectories(i))
      nat == TableLength(NewDirectories(i))
  IN IF nat = old \/ nat <= old - 2 THEN old
     ELSE IF nat = old - 1 THEN old + 1
     ELSE nat

\* The padding directory C23 gives it.
PaddingDirectory(i) ==
  LET old == TableLength(OldDirectories(i))
      nat == TableLength(NewDirectories(i))
  IN IF nat = old - 1 THEN << <<33>> >>
     ELSE IF nat <= old - 2 THEN <<Fill(old - nat - 1, 33)>>
     ELSE <<>>

\* By how much the i-th modified unit grows.
TableGrowth(i) == InstalledLength(i) - TableLength(OldDirectories(i))

\* Where the table of the i-th modified unit starts in the new section.
NewTableOffset(i) ==
  patch_actions[i].string_table_start_offset
    + SumSeq([k \in 1..(i - 1) |-> TableGrowth(k)])

\* C23: a modified directory table is installed with its old length when
\* the patched table has that length or is two or more bytes shorter (a
\* directory of '!' fills the difference), with one byte more when it is one
\* byte shorter (a directory "!" is appended), and with its natural length
\* when it is longer; the patched directories keep their order with the
\* padding last, no table is shortened, and the section grows by the sum of
\* the tables' growth.
C23_DirectoryTableLength ==
  LineInfoApplied =>
    LET new_data == PatchedSection(kSegment, kLineInfoSection)
    IN /\ Len(new_data) =
            Len(buffer) + SumSeq([i \in 1..Len(patch_actions) |-> TableGrowth(i)])
       /\ \A i \in 1..Len(patch_actions) :
            /\ TableGrowth(i) >= 0
            /\ DirectoryEntries(new_data, NewTableOffset(i)) =
                 NewDirectories(i) \o PaddingDirectory(i)
            /\ TableLength(DirectoryEntries(new_data, NewTableOffset(i))) =
                 InstalledLength(i)

\* Two units whose tables both came out one byte short were patched.
C23_Witness ==
  /\ LineInfoApplied
  /\ Len(patch_actions) = 2
  /\ \A i \in 1..2 :
       TableLength(NewDirectories(i)) = TableLength(OldDirectories(i)) - 1

\* The i-th modified unit is of the 64-bit format.
UnitIs64(i) ==
  Bytes(buffer, patch_actions[i].compilation_unit_length_offset, 4)
    = <<255, 255, 255, 255>>

\* Where the i-th modified unit starts in the new section.
NewUnitOffset(i) ==
  patch_actions[i].compilation_unit_length_offset
    + SumSeq([k \in 1..(i - 1) |-> TableGrowth(k)])

\* The byte ranges [from, to) of the i-th modified unit that a rewrite may
\* change, in a section where the unit starts at unit and its directory
\* table, of length table_length, at table: the unit length, the header
\* length and the table.
PatchedRanges(i, unit, table, table_length) ==
  LET width == IF UnitIs64(i) THEN 8 ELSE 4
      length == unit + (IF UnitIs64(i) THEN 4 ELSE 0)
      header == length + width + 2
  IN {<<length, length + width>>, <<header, header + width>>,
      <<table, table + table_length>>}

\* The bytes of data outside the ranges, in order.
Outside(data, ranges) ==
  LET keep == {k \in 0..(Len(data) - 1) :
                 \A r \in ranges : k < r[1] \/ k >= r[2]}
  IN [j \in 1..Cardinality(keep) |->
        data[1 + CHOOSE k \in keep : Cardinality({x \in keep : x < k}) = j - 1]]

\* C24: after a size-growing rewrite of __debug_line the unit parser finds,
\* for every patched unit of either format, the same format with
\* unitLength and headerLength both increased by the growth of the unit's
\* directory table; every byte outside the two length fields and the table
\* is copied unchanged, and the section's size is the old size plus the
\* sum of the growths.
C24_RewrittenLineInfoUnits ==
  (LineInfoApplied /\ Deferred(kSegment, kLineInfoSection)) =>
    LET new_data == PatchedSection(kSegment, kLineInfoSection)
        units == 1..Len(patch_actions)
        was(i) == ProcessLineInfoUnit(
                    buffer, patch_actions[i].compilation_unit_length_offset,
                    old_prefix, new_prefix)
        now(i) == ProcessLineInfoUnit(new_data, NewUnitOffset(i),
                                      old_prefix, new_prefix)
    IN /\ Len(new_data) = Len(buffer) + SumSeq([i \in units |-> TableGrowth(i)])
       /\ Outside(new_data,
                  UNION {PatchedRanges(i, NewUnitOffset(i), NewTableOffset(i),
                                       InstalledLength(i)) : i \in units})
            = Outside(buffer,
                      UNION {PatchedRanges(
                               i, patch_actions[i].compilation_unit_length_offset,
                               patch_actions[i].string_table_start_offset,
                               TableLength(OldDirectories(i))) : i \in units})
       /\ \A i \in units :
            /\ now(i).ok
            /\ Bytes(new_data, NewUnitOffset(i), 4) = <<255, 255, 255, 255>>
                 <=> UnitIs64(i)
            /\ now(i).action.compilation_unit_length =
                 was(i).action.compilation_unit_length + TableGrowth(i)
            /\ now(i).action.header_length =
                 was(i).action.header_length + TableGrowth(i)

(***************************************************************************)
(* Properties of the __debug_info walk.                                    *)
(***************************************************************************)
\* PatchInfoSection has returned.
InfoWalked ==
  /\ pc = "done"
  /\ sections_read # <<>>
  /\ sections_read[Len(sections_read)] = kInfoSection

OriginalInfo == OriginalSection(kSegment, kInfoSection)

PatchedInfo == PatchedSection(kSegment, kInfoSection)

\* The section was handed to WriteSectionData.
InfoHanded == <<cur, kSegment, kInfoSection>> \in Range(targets)

\* The first length word of the unit InfoUnitOf lays out, whether the unit
\* is laid out in the 64-bit format, and the width of its offsets.
FirstLength(info) == SubSeq(info, 1, 4)

WideLayout(info) == FirstLength(info) \in {Dwarf64Marker, Bit31Word}

FieldWidth(info) == IF WideLayout(info) THEN 8 ELSE 4

\* The bytes before the unit's first entry: the first length word of the
\* 64-bit layout, the unit length, the version, the abbreviation offset and
\* the address size.
UnitHeaderLength(info) ==
  (IF WideLayout(info) THEN 4 ELSE 0) + 2 * FieldWidth(info) + 3

\* The entries of the unit, the place of the DW_FORM_strp field of the i-th
\* entry and the value it holds.
StrpCount(info) == (Len(info) - UnitHeaderLength(info)) \div (FieldWidth(info) + 2)

StrpField(info, i) ==
  UnitHeaderLength(info) + (i - 1) * (FieldWidth(info) + 2) + 1

StrpAt(info, i) == LittleEndian(info, StrpField(info, i), FieldWidth(info))

\* Every string reference of the original section is a key of the
\* relocation map.
AllStrpRelocatable ==
  \A i \in 1..StrpCount(OriginalInfo) :
    StrpAt(OriginalInfo, i) \in DOMAIN string_relocation_table

\* The references the walk has to change.
MovedStrp ==
  {i \in 1..StrpCount(OriginalInfo) :
     /\ StrpAt(OriginalInfo, i) \in DOMAIN string_relocation_table
     /\ string_relocation_table[StrpAt(OriginalInfo, i)]
          # StrpAt(OriginalInfo, i)}

\* C21: a unit of __debug_info is walked in the 64-bit format exactly when
\* its first length word is ff ff ff ff.  A unit whose first word is any
\* other value is a 32-bit unit of that length; when bit 31 of the word is
\* set the unit reaches far beyond these sections, so its walk cannot end
\* with ERR_OK and the section stays as it was.  A unit of either format
\* whose references are all string starts is walked to its end.
C21_Dwarf64OnlyByMarker ==
  InfoWalked =>
    /\ (FirstLength(OriginalInfo)[4] >= 128
          /\ FirstLength(OriginalInfo) # Dwarf64Marker)
         => (retval # ERR_OK /\ PatchedInfo = OriginalInfo)
    /\ (FirstLength(OriginalInfo)[4] < 128
          \/ FirstLength(OriginalInfo) = Dwarf64Marker)
         => (retval = ERR_OK <=> AllStrpRelocatable)

\* C22: the walk changes only DW_FORM_strp fields whose relocated offset
\* differs: every other byte of __debug_info is as it was, the section keeps
\* its length, and it is written, in place, exactly when the walk succeeded
\* and some reference moved.
C22_OnlyStrpFieldsChange ==
  InfoWalked =>
    /\ Len(PatchedInfo) = Len(OriginalInfo)
    /\ \A p \in 1..Len(OriginalInfo) :
         (\A i \in MovedStrp :
            p - 1 \notin StrpField(OriginalInfo, i)
                           ..(StrpField(OriginalInfo, i)
                                + FieldWidth(OriginalInfo) - 1))
           => PatchedInfo[p] = OriginalInfo[p]
    /\ ~Deferred(kSegment, kInfoSection)
    /\ InfoHanded <=> (retval = ERR_OK /\ MovedStrp # {})

\* A unit with a data byte behind every reference was walked and written
\* with a reference that moved and one that stayed.
C22_Witness ==
  /\ InfoWalked
  /\ InfoHanded
  /\ MovedStrp # {}
  /\ MovedStrp # 1..StrpCount(OriginalInfo)
  /\ PatchedInfo # OriginalInfo

\* C30: when PatchInfoSection returns ERR_OK every DW_FORM_strp field held a
\* key of the relocation map, a string start of the original __debug_str,
\* and holds the offset the map gives for it; a reference to an offset at
\* which no string starts ends the walk with ERR_INVALID_FILE and leaves
\* __debug_info unwritten.
C30_StrpRelocatedOrRejected ==
  InfoWalked =>
    /\ retval = ERR_OK =>
         \A i \in 1..StrpCount(OriginalInfo) :
           /\ StrpAt(OriginalInfo, i)
                \in StringStarts(OriginalSection(kSegment, kStringSection))
           /\ StrpAt(OriginalInfo, i) \in DOMAIN string_relocation_table
           /\ StrpAt(PatchedInfo, i)
                = string_relocation_table[StrpAt(OriginalInfo, i)]
    /\ (\E i \in 1..StrpCount(OriginalInfo) :
          StrpAt(OriginalInfo, i)
            \notin StringStarts(OriginalSection(kSegment, kStringSection)))
         => /\ retval = ERR_INVALID_FILE
            /\ ~InfoHanded
            /\ PatchedInfo = OriginalInfo

\* A walk that moved a reference and then met one into the middle of a
\* string.
C30_Witness ==
  /\ InfoWalked
  /\ retval = ERR_INVALID_FILE
  /\ MovedStrp # {}
  /\ ~AllStrpRelocatable
  /\ ~InfoHanded

(***************************************************************************)
(* Properties of the serialized image's section table.                     *)
(***************************************************************************)
\* The <<segment, section>> index pairs of the committed image's table.
SectionIndices ==
  UNION {{<<i, j>> : j \in 1..Len(load_commands[Committed][i].sections)} :
           i \in 1..Len(load_commands[Committed])}

\* The table entry of a section after the commit, and the bytes the section
\* has to hold: the replacement queued for it, or else its original bytes.
SectionNow(x) == load_commands[Committed][x[1]].sections[x[2]]

SectionBytes(x) ==
  LET slice == before.content[Committed]
      was == before.load_commands[Committed][x[1]].sections[x[2]]
      path == <<slice.segments[x[1]].segname, was.sectname>>
  IN IF path \in DOMAIN slice.deferred_write_actions
     THEN slice.deferred_write_actions[path].data
     ELSE Bytes(before.file, slice.content_offset + was.offset, was.size)

\* C29: after serialize applied growing deferred writes, every section's
\* offset and size lie inside its segment's new range, each section's bytes
\* are at its recorded offset, and no two sections' bytes overlap.
C29_SectionsInsideSegments ==
  CommitDone =>
    /\ \A x \in SectionIndices :
         LET segment == load_commands[Committed][x[1]]
         IN /\ SectionNow(x).offset >= segment.fileoff
            /\ SectionNow(x).offset + SectionNow(x).size
                 <= segment.fileoff + segment.filesize
            /\ Bytes(file,
                     before.content[Committed].content_offset
                       + SectionNow(x).offset,
                     Len(SectionBytes(x)))
                 = SectionBytes(x)
    /\ \A x \in SectionIndices, y \in SectionIndices :
         x # y =>
           \/ SectionNow(x).offset + Len(SectionBytes(x)) <= SectionNow(y).offset
           \/ SectionNow(y).offset + Len(SectionBytes(y)) <= SectionNow(x).offset

====
